---------------------------- MODULE Spec2Model ----------------------------
(***************************************************************************)
(* Model of the recommendation resolver of the news backend                *)
(* (backend/fastapi_app/routers/recommendations.py and its Flask twin      *)
(* backend/flask_app/routes/recommendations.py), of the stores it reads    *)
(* and of shared/utils.py cache_key_generator.                             *)
(*                                                                         *)
(* Time is counted in seconds.  A datetime is a natural number.            *)
(***************************************************************************)
EXTENDS Integers, Sequences, FiniteSets, TLC

(***************************************************************************)
(* Python values that reach cache_key_generator, tagged with their type.   *)
(***************************************************************************)
PyInt(n) == [t |-> "int", v |-> n]

PyStrV(s) == [t |-> "str", v |-> s]

PyBool(b) == [t |-> "bool", v |-> b]

PyNone == [t |-> "none", v |-> 0]

PyList(s) == [t |-> "list", v |-> s]

PyFloat(repr) == [t |-> "float", v |-> repr]

PyObj(repr) == [t |-> "object", v |-> repr]

RECURSIVE JoinWith(_, _)
\* sep.join(parts)
JoinWith(sep, parts) ==
    IF parts = <<>> THEN ""
    ELSE IF Len(parts) = 1 THEN parts[1]
    ELSE parts[1] \o sep \o JoinWith(sep, Tail(parts))

\* repr of a list of str: ['a', 'b']
ListRepr(s) == "[" \o JoinWith(", ", [i \in 1..Len(s) |-> "'" \o s[i] \o "'"]) \o "]"

\* str(value), which is also what f"{value}" formats
PyStr(val) ==
    CASE val.t = "int" -> ToString(val.v)
      [] val.t = "str" -> val.v
      [] val.t = "bool" -> (IF val.v THEN "True" ELSE "False")
      [] val.t = "none" -> "None"
      [] val.t = "list" -> ListRepr(val.v)
      [] val.t = "float" -> val.v
      [] OTHER -> val.v

\* hash(s) of a str: salted per interpreter process (PYTHONHASHSEED)
PyHash(s, seed) == "hash" \o ToString(seed) \o "(" \o s \o ")"

\* hashlib.md5(s.encode()).hexdigest(): the digest is named by its preimage
Md5(s) == "md5(" \o s \o ")"

\* The keyword names in use, in Python's str order (code point order).
NameOrder ==
    <<"categories", "debug", "diversity_weight", "exclude_read", "limit", "user_id">>

NameRank(n) == CHOOSE i \in 1..Len(NameOrder) : NameOrder[i] = n

\* (k1, v1) < (k2, v2) on kwargs items: the names are distinct, so the
\* names decide
ItemLess(x, y) == NameRank(x[1]) < NameRank(y[1])

RECURSIVE InsertSorted(_, _)
InsertSorted(x, s) ==
    IF s = <<>> THEN <<x>>
    ELSE IF ItemLess(x, Head(s)) THEN <<x>> \o s
    ELSE <<Head(s)>> \o InsertSorted(x, Tail(s))

RECURSIVE SortedItemsRec(_)
SortedItemsRec(items) ==
    IF items = <<>> THEN <<>>
    ELSE InsertSorted(Head(items), SortedItemsRec(Tail(items)))

\* a plausible slip: the items are used in the order they were passed
SortedItems_Unsorted(items) == items

\* sorted(kwargs.items())
SortedItems(items) == SortedItemsRec(items)

\* the key part of one positional argument
ArgPart(arg, seed) ==
    IF arg.t \in {"str", "int", "float", "bool"} THEN PyStr(arg)
    ELSE IF arg.t = "list" THEN JoinWith(",", arg.v)
    ELSE PyHash(PyStr(arg), seed)

\* the key part of one keyword argument: f"{key}={value}"
KwPart(item) == item[1] \o "=" \o PyStr(item[2])

\* cache_key_generator(*args, **kwargs) in a process whose str hash is
\* salted with seed
cache_key_generator(args, kwargs, seed) ==
    LET key_parts ==
            [i \in 1..Len(args) |-> ArgPart(args[i], seed)]
            \o [i \in 1..Len(kwargs) |-> KwPart(SortedItems(kwargs)[i])]
        key_string == JoinWith(":", key_parts)
    IN  Md5(key_string)


(***************************************************************************)
(* The stores: the articles and user_interactions tables, the durable      *)
(* recommendation_cache table, and the ephemeral store (Redis).            *)
(***************************************************************************)
Users == {"u1", "u2"}

ArticleIds == {"a1", "a2", "a3"}

\* an id a recommendation_cache row may still list although no articles row
\* has it
MissingId == "a0"

Statuses == {"draft", "published", "archived", "blocked"}

Category == [a \in ArticleIds |-> IF a = "a2" THEN "sports" ELSE "tech"]

TrendingScore == [a \in ArticleIds |-> IF a = "a3" THEN 20 ELSE 50]

EngagementScore == [a \in ArticleIds |-> IF a = "a2" THEN 30 ELSE 10]

\* redis_client.setex(cache_key, 3600, ...)
MemoTTL == 3600

\* expires_at = datetime.now() + timedelta(hours=1)
FallbackLifetime == 3600

\* the clock advances by half a memo TTL at a time
TickLength == MemoTTL \div 2

\* what happens around the requests in one behaviour: clock ticks, article
\* status changes, rows retired
MaxEvents == 2

\* requests started in one behaviour
MaxRequests == 2

\* rows in recommendation_cache
MaxRows == 1

\* keyword arguments passed to cache_key_generator in the key check
MaxKwargs == 3

Procs == {"p1", "p2"}

\* the workers that take requests one after the other
Workers == {"p1"}

VARIABLES
    now,            \* the clock, datetime.now()
    articles,       \* articles.status, per article id
    interactions,   \* user_interactions rows: <<user_id, article_id, type>>
    recCache,       \* recommendation_cache rows
    memo,           \* the ephemeral store: key -> [value, expires_at]
    redisClient,    \* db_manager._redis_client: "none" or "connected"
    h,              \* the handler invocations in flight, per worker
    started,        \* requests started so far
    events,         \* clock ticks, status changes and retired rows so far
    kwSeed,         \* cache key check: the str hash salt of the process
    kwArgs,         \* cache key check: the keyword arguments as passed
    kwKey,          \* cache key check: the key returned for them
    fnIn,           \* utility check: the arguments of the call
    fnOut,          \* utility check: what the call returned
    likeRows,       \* the 'like' rows of user_interactions on one article, per user
    likeCount,      \* articles.like_count of that article
    liker,          \* the like_article invocations in flight, per worker
    payments,       \* author_payments rows
    tasks,          \* the background tasks scheduled by create_donation
    donation        \* the create_donation invocations in flight, per worker

vars == <<now, articles, interactions, recCache, memo, redisClient, h,
          started, events, kwSeed, kwArgs, kwKey, fnIn, fnOut,
          likeRows, likeCount, liker, payments, tasks, donation>>

resolverVars == <<now, articles, interactions, recCache, memo, redisClient,
                  h, started, events>>

keyVars == <<kwSeed, kwArgs, kwKey>>

utilVars == <<fnIn, fnOut>>

likeVars == <<likeRows, likeCount, liker>>

donationVars == <<payments, tasks, donation>>

sideVars == <<likeVars, donationVars>>

Min(a, b) == IF a < b THEN a ELSE b

Range(s) == {s[i] : i \in 1..Len(s)}

\* s[:n]
Take(s, n) == SubSeq(s, 1, Min(n, Len(s)))

RECURSIVE SelectDistinct(_, _, _)
\* the elements of s that are in keep, each once, at its first position
SelectDistinct(s, keep, seen) ==
    IF s = <<>> THEN <<>>
    ELSE IF Head(s) \in keep /\ Head(s) \notin seen
         THEN <<Head(s)>> \o SelectDistinct(Tail(s), keep, seen \cup {Head(s)})
         ELSE SelectDistinct(Tail(s), keep, seen)

(***************************************************************************)
(* Rows and responses.                                                     *)
(***************************************************************************)
NoRow ==
    [user_id |-> "", recommended_articles |-> <<>>, model_ensemble |-> "",
     cache_timestamp |-> 0, expiry_timestamp |-> 0, is_active |-> FALSE]

\* ArticleResponse(**dict(article)): the row as read
ArticleResponse(a, status) ==
    [id |-> a, status |-> status, category |-> Category[a]]

\* RecommendationResponse(...); timestamp is BaseResponse's default_factory
RecommendationResponse(recs, model, generated, expires, ts) ==
    [recommendations |-> recs, model_used |-> model, generated_at |-> generated,
     expires_at |-> expires, timestamp |-> ts]

NoResponse == RecommendationResponse(<<>>, "", 0, 0, 0)

\* str(datetime), which json.dumps(..., default=str) writes
DtStr(t) == <<"datetime", t>>

\* a plausible slip: only the date is parsed
DtParse_DateOnly(s) == (s[2] \div 86400) * 86400

\* pydantic's parse of a datetime string
DtParse(s) == s[2]

\* json.dumps(response.dict(), default=str)
Serialize(r) ==
    [recommendations |-> r.recommendations, model_used |-> r.model_used,
     generated_at |-> DtStr(r.generated_at), expires_at |-> DtStr(r.expires_at),
     timestamp |-> DtStr(r.timestamp)]

\* RecommendationResponse(**json.loads(cached_result))
Deserialize(j) ==
    RecommendationResponse(j.recommendations, j.model_used,
                           DtParse(j.generated_at), DtParse(j.expires_at),
                           DtParse(j.timestamp))

(***************************************************************************)
(* Requests.  A request is the validated RecommendationRequest.            *)
(***************************************************************************)
RequestShapes ==
    { [limit |-> 1, categories |-> PyNone, exclude_read |-> FALSE],
      [limit |-> 2, categories |-> PyNone, exclude_read |-> FALSE],
      [limit |-> 2, categories |-> PyList(<<"tech">>), exclude_read |-> TRUE] }

\* the requests made: who asks, and for what
Requests ==
    {<<"u1", req>> : req \in RequestShapes}
        \cup {<<"u2", [limit |-> 2, categories |-> PyNone, exclude_read |-> FALSE]>>}

NoRequest == [limit |-> 0, categories |-> PyNone, exclude_read |-> FALSE]

\* a plausible slip: the key leaves the limit out
ReqKwargs_NoLimit(user, req) ==
    << <<"user_id", PyStrV(user)>>,
       <<"categories", req.categories>>,
       <<"exclude_read", PyBool(req.exclude_read)>>,
       <<"diversity_weight", PyFloat("0.3")>> >>

\* req_data.dict(), after req_data.user_id = user_id
ReqKwargs(user, req) ==
    << <<"user_id", PyStrV(user)>>,
       <<"limit", PyInt(req.limit)>>,
       <<"categories", req.categories>>,
       <<"exclude_read", PyBool(req.exclude_read)>>,
       <<"diversity_weight", PyFloat("0.3")>> >>

\* a plausible slip: the key is that of the request shape alone
CacheKey_Shared(user, req, seed) ==
    "recommendations:" \o cache_key_generator(<<>>, Tail(ReqKwargs(user, req)), seed)

\* f"recommendations:{user_id}:{cache_key_generator(**req_data.dict())}"
CacheKey(user, req, seed) ==
    "recommendations:" \o user \o ":"
        \o cache_key_generator(<<>>, ReqKwargs(user, req), seed)

\* a plausible slip: "if req_data.categories is not None:"
Truthy_NotNone(val) == val.t = "list"

\* "if req_data.categories:" -- None and [] are falsy
Truthy(val) == val.t = "list" /\ val.v # <<>>

(***************************************************************************)
(* The queries.                                                            *)
(***************************************************************************)
\* a plausible slip: the expiry is not compared
ValidRows_NoExpiry(user, t) ==
    {r \in recCache : r.user_id = user /\ r.is_active}

\* a plausible slip: retired rows are served too
ValidRows_Retired(user, t) ==
    {r \in recCache : r.user_id = user /\ r.expiry_timestamp > t}

\* WHERE user_id = %s AND is_active = true AND expiry_timestamp > %s
ValidRows(user, t) ==
    {r \in recCache : r.user_id = user /\ r.is_active /\ r.expiry_timestamp > t}

\* a plausible slip: LIMIT 1 without the ORDER BY
LatestRows_Any(rows) == rows

\* ORDER BY cache_timestamp DESC LIMIT 1: any of the latest rows
LatestRows(rows) ==
    {r \in rows : \A q \in rows : q.cache_timestamp <= r.cache_timestamp}

\* a plausible slip: the status is not compared
PublishedIn_AnyStatus(ids) == Range(ids) \cap ArticleIds

\* WHERE id = ANY(%s) AND status = 'published'
PublishedIn(ids) == {a \in Range(ids) \cap ArticleIds : articles[a] = "published"}

\* a plausible slip: the rows come back in table order, not in ranked order
FetchByIds_TableOrder(ids) ==
    SelectDistinct(<<"a1", "a2", "a3">>, PublishedIn(ids), {})

\* a plausible slip: the durable path leaves out what has been read
FetchByIds_Unread(ids) ==
    SelectDistinct(ids,
                   PublishedIn(ids)
                       \ {i[2] : i \in {j \in interactions : j[3] \in {"view", "like", "save"}}},
                   {})

\* ... ORDER BY array_position(%s, id): each row once, at its first position
FetchByIds(ids) == SelectDistinct(ids, PublishedIn(ids), {})

\* ORDER BY trending_score DESC, engagement_score DESC
Before(a, b) ==
    \/ TrendingScore[a] > TrendingScore[b]
    \/ TrendingScore[a] = TrendingScore[b] /\ EngagementScore[a] > EngagementScore[b]

RECURSIVE OrderByTrend(_)
OrderByTrend(S) ==
    IF S = {} THEN <<>>
    ELSE LET a == CHOOSE x \in S : \A y \in S \ {x} : Before(x, y)
         IN  <<a>> \o OrderByTrend(S \ {a})

\* SELECT DISTINCT article_id FROM user_interactions WHERE user_id = %s
\*   AND interaction_type IN ('view', 'like', 'save')
ReadIds(user) ==
    {i[2] : i \in {j \in interactions : j[1] = user /\ j[3] \in {"view", "like", "save"}}}

\* a plausible slip: exclude_read is not applied
TrendingEligible_IgnoresRead(user, req) ==
    {a \in ArticleIds :
        /\ articles[a] = "published"
        /\ Truthy(req.categories) => Category[a] \in Range(req.categories.v)}

\* the WHERE clause of the trending query
TrendingEligible(user, req) ==
    {a \in ArticleIds :
        /\ articles[a] = "published"
        /\ Truthy(req.categories) => Category[a] \in Range(req.categories.v)
        /\ req.exclude_read => a \notin ReadIds(user)}

\* ... ORDER BY trending_score DESC, engagement_score DESC LIMIT %s
TrendingQuery(user, req) == Take(OrderByTrend(TrendingEligible(user, req)), req.limit)

\* [ArticleResponse(**dict(article)) for article in articles]
ArticleResponses(ids) == [i \in 1..Len(ids) |-> ArticleResponse(ids[i], articles[ids[i]])]

\* redis_client.get(cache_key): Redis drops a key once its TTL has run out
MemoHas(key) == key \in DOMAIN memo /\ memo[key].expires_at > now

\* a like_article invocation that has not started
IdleLiker == [pc |-> "idle", user_id |-> "", app |-> "", existing_like |-> FALSE, http |-> 0]

\* a create_donation invocation that has not started
IdleDonation ==
    [pc |-> "idle", donor |-> "", article_id |-> "", anonymous |-> FALSE,
     raised |-> "", http |-> 0, detail |-> ""]

(***************************************************************************)
(* One invocation of get_recommendations.  Besides the handler's own       *)
(* variables the record keeps what the invocation saw and did, for the     *)
(* properties below.                                                       *)
(***************************************************************************)
IdleHandler ==
    [pc |-> "idle", user_id |-> "", req |-> NoRequest, cache_key |-> "",
     redis_client |-> FALSE,      \* whether redis_client got bound
     cached_rec |-> NoRow, article_ids |-> <<>>, response |-> NoResponse,
     http |-> 0, detail |-> "", returned |-> NoResponse,
     \* what it saw and did
     memo_seen |-> "none",        \* "hit", "miss" or "error"
     memo_value |-> Serialize(NoResponse),
     path |-> "none",             \* "memo", "durable" or "trending"
     n_cache_q |-> 0, n_article_q |-> 0, n_interaction_q |-> 0,
     setex_calls |-> <<>>,        \* the setex calls made on the client
     memo_written |-> FALSE,      \* a setex call was accepted by the store
     redis_failed |-> FALSE, db_error |-> "none",
     seen_now |-> 0, seen_rows |-> {},
     seen_status |-> [a \in ArticleIds |-> "draft"],
     seen_read |-> {}]

\* lines 36-38: a truthy cached_result is returned at once
AfterLookup_Continue(hit) == "db_cache"

AfterLookup(hit) == IF hit THEN "done" ELSE "db_cache"

\* a plausible slip: degrade on a database error, return what there is
Failed_Degraded(r, kind) ==
    [r EXCEPT !.pc = "done", !.http = 200, !.returned = r.response,
              !.db_error = kind]

\* except Exception as e: ... HTTPException(500, "Failed to get recommendations")
Failed(r, kind) ==
    [r EXCEPT !.pc = "done", !.http = 500,
              !.detail = "Failed to get recommendations",
              !.returned = NoResponse, !.db_error = kind]

\* a plausible slip: no try around setex, the error reaches the outer handler
OnSetexError_Raise(r) == Failed([r EXCEPT !.redis_failed = TRUE], "none")

\* except Exception as redis_error: logger.warning(...)
OnSetexError(r) == [r EXCEPT !.redis_failed = TRUE, !.pc = "return"]

Begin(p, user, req) ==
    /\ h[p].pc \in {"idle", "done"}
    /\ started < MaxRequests
    /\ started' = started + 1
    /\ h' = [h EXCEPT ![p] =
                [IdleHandler EXCEPT !.pc = "memo_get", !.user_id = user,
                                    !.req = req,
                                    !.cache_key = CacheKey(user, req, kwSeed)]]
    /\ UNCHANGED <<now, articles, interactions, recCache, memo, redisClient,
                   events>>
    /\ UNCHANGED keyVars
    /\ UNCHANGED sideVars
    /\ UNCHANGED utilVars

\* lines 33-40: get_redis(), get, and the return on a hit
MemoGet(p) ==
    /\ h[p].pc = "memo_get"
    /\ \E connUp \in BOOLEAN, getUp \in BOOLEAN :
        LET r == h[p] IN
        IF redisClient = "none" /\ ~connUp
        THEN \* get_redis_client: ping fails, _redis_client = None, raise
             /\ redisClient' = "none"
             /\ h' = [h EXCEPT ![p] =
                        [r EXCEPT !.pc = "db_cache", !.memo_seen = "error",
                                  !.redis_failed = TRUE]]
        ELSE /\ redisClient' = "connected"
             /\ IF ~getUp
                THEN h' = [h EXCEPT ![p] =
                             [r EXCEPT !.pc = "db_cache", !.redis_client = TRUE,
                                       !.memo_seen = "error",
                                       !.redis_failed = TRUE]]
                ELSE IF MemoHas(r.cache_key)
                THEN LET val == memo[r.cache_key].value
                         seen == [r EXCEPT !.redis_client = TRUE,
                                           !.memo_seen = "hit",
                                           !.memo_value = val,
                                           !.seen_now = now,
                                           !.seen_rows = {q \in recCache : q.user_id = r.user_id}]
                     IN  IF AfterLookup(TRUE) = "done"
                         THEN h' = [h EXCEPT ![p] =
                                      [seen EXCEPT !.pc = "done", !.path = "memo",
                                                   !.response = Deserialize(val),
                                                   !.returned = Deserialize(val),
                                                   !.http = 200]]
                         ELSE h' = [h EXCEPT ![p] = [seen EXCEPT !.pc = "db_cache"]]
                ELSE h' = [h EXCEPT ![p] =
                             [r EXCEPT !.pc = AfterLookup(FALSE),
                                       !.redis_client = TRUE,
                                       !.memo_seen = "miss"]]
    /\ UNCHANGED <<now, articles, interactions, recCache, memo, started,
                   events>>
    /\ UNCHANGED keyVars
    /\ UNCHANGED sideVars
    /\ UNCHANGED utilVars

\* lines 43-56: the cursor, the recommendation_cache query, the slice
DurableLookup(p) ==
    /\ h[p].pc = "db_cache"
    /\ LET r == h[p] IN
       \/ \E kind \in {"connect", "cache_query"} :
             h' = [h EXCEPT ![p] = Failed(r, kind)]
       \/ LET valid == ValidRows(r.user_id, now)
              saw == [r EXCEPT !.n_cache_q = @ + 1, !.seen_now = now,
                               !.seen_rows = {q \in recCache : q.user_id = r.user_id}]
          IN  IF valid = {}
              THEN h' = [h EXCEPT ![p] = [saw EXCEPT !.pc = "db_trending"]]
              ELSE \E row \in LatestRows(valid) :
                     LET ids == Take(row.recommended_articles, r.req.limit) IN
                     h' = [h EXCEPT ![p] =
                             [saw EXCEPT !.cached_rec = row, !.article_ids = ids,
                                         !.pc = IF ids # <<>> THEN "db_articles"
                                                ELSE "db_trending"]]
    /\ UNCHANGED <<now, articles, interactions, recCache, memo, redisClient,
                   started, events>>
    /\ UNCHANGED keyVars
    /\ UNCHANGED sideVars
    /\ UNCHANGED utilVars

\* lines 57-70: the articles of the cached row, and the response
ArticleFetch(p) ==
    /\ h[p].pc = "db_articles"
    /\ LET r == h[p] IN
       \/ h' = [h EXCEPT ![p] = Failed(r, "article_fetch")]
       \/ h' = [h EXCEPT ![p] =
                  [r EXCEPT !.pc = "memo_set", !.path = "durable",
                            !.n_article_q = @ + 1, !.seen_status = articles,
                            !.response =
                                RecommendationResponse(
                                    ArticleResponses(FetchByIds(r.article_ids)),
                                    r.cached_rec.model_ensemble,
                                    r.cached_rec.cache_timestamp,
                                    r.cached_rec.expiry_timestamp, now)]]
    /\ UNCHANGED <<now, articles, interactions, recCache, memo, redisClient,
                   started, events>>
    /\ UNCHANGED keyVars
    /\ UNCHANGED sideVars
    /\ UNCHANGED utilVars

\* lines 80-105: the trending query, and the response
TrendingFetch(p) ==
    /\ h[p].pc = "db_trending"
    /\ LET r == h[p] IN
       \/ h' = [h EXCEPT ![p] = Failed(r, "trending_query")]
       \/ h' = [h EXCEPT ![p] =
                  [r EXCEPT !.pc = "memo_set", !.path = "trending",
                            !.n_article_q = @ + 1,
                            !.n_interaction_q = IF r.req.exclude_read THEN @ + 1 ELSE @,
                            !.seen_status = articles,
                            !.seen_read = ReadIds(r.user_id),
                            !.response =
                                RecommendationResponse(
                                    ArticleResponses(TrendingQuery(r.user_id, r.req)),
                                    "trending_fallback", now,
                                    now + FallbackLifetime, now)]]
    /\ UNCHANGED <<now, articles, interactions, recCache, memo, redisClient,
                   started, events>>
    /\ UNCHANGED keyVars
    /\ UNCHANGED sideVars
    /\ UNCHANGED utilVars

\* a plausible slip: memoize for a day
SetexCall_Day(r) ==
    [key |-> r.cache_key, ttl |-> 24 * MemoTTL, value |-> Serialize(r.response)]

\* a plausible slip: one key for every user's recommendations
SetexCall_SharedKey(r) ==
    [key |-> "recommendations", ttl |-> MemoTTL, value |-> Serialize(r.response)]

\* the arguments of setex(cache_key, 3600, json.dumps(response.dict(), ...))
SetexCall(r) ==
    [key |-> r.cache_key, ttl |-> MemoTTL, value |-> Serialize(r.response)]

\* a plausible slip: SET ... NX, the first value stays
Setex_KeepFirst(m, call, t) ==
    m @@ (call.key :> [value |-> call.value, expires_at |-> t + call.ttl])

\* Redis SETEX: the key takes the new value and a new TTL
Setex(m, call, t) ==
    (call.key :> [value |-> call.value, expires_at |-> t + call.ttl]) @@ m

\* lines 72-76 and 107-110: setex under the request's key
MemoSet(p) ==
    /\ h[p].pc = "memo_set"
    /\ LET r == h[p]
           call == SetexCall(r)
       IN
       IF ~r.redis_client
       THEN \* redis_client was never bound: UnboundLocalError, caught
            /\ h' = [h EXCEPT ![p] = OnSetexError(r)]
            /\ memo' = memo
       ELSE \/ /\ memo' = Setex(memo, call, now)
               /\ h' = [h EXCEPT ![p] =
                          [r EXCEPT !.pc = "return",
                                    !.setex_calls = Append(@, call),
                                    !.memo_written = TRUE]]
            \/ /\ memo' = memo
               /\ h' = [h EXCEPT ![p] =
                          OnSetexError([r EXCEPT !.setex_calls = Append(@, call)])]
    /\ UNCHANGED <<now, articles, interactions, recCache, redisClient, started,
                   events>>
    /\ UNCHANGED keyVars
    /\ UNCHANGED sideVars
    /\ UNCHANGED utilVars

\* lines 78 and 112: return response, through the cursor's conn.commit()
Return(p) ==
    /\ h[p].pc = "return"
    /\ LET r == h[p] IN
       \/ h' = [h EXCEPT ![p] = Failed(r, "commit")]
       \/ h' = [h EXCEPT ![p] =
                  [r EXCEPT !.pc = "done", !.http = 200, !.returned = r.response]]
    /\ UNCHANGED <<now, articles, interactions, recCache, memo, redisClient,
                   started, events>>
    /\ UNCHANGED keyVars
    /\ UNCHANGED sideVars
    /\ UNCHANGED utilVars

(***************************************************************************)
(* The rest of the system: the clock, the article routes, the interaction  *)
(* route and the job that writes recommendation_cache.                     *)
(***************************************************************************)
\* time passes; Redis drops the keys whose TTL has run out
Tick ==
    /\ events < MaxEvents
    /\ events' = events + 1
    /\ now' = now + TickLength
    /\ memo' = [k \in {x \in DOMAIN memo : memo[x].expires_at > now'} |-> memo[k]]
    /\ UNCHANGED <<articles, interactions, recCache, redisClient, h, started>>
    /\ UNCHANGED keyVars
    /\ UNCHANGED sideVars
    /\ UNCHANGED utilVars

\* PUT /articles/<id> with a status: UPDATE articles SET status = %s
update_article(a, status) ==
    /\ events < MaxEvents
    /\ articles[a] # status
    /\ articles' = [articles EXCEPT ![a] = status]
    /\ events' = events + 1
    /\ UNCHANGED <<now, interactions, recCache, memo, redisClient, h, started>>
    /\ UNCHANGED keyVars
    /\ UNCHANGED sideVars
    /\ UNCHANGED utilVars

\* DELETE /articles/<id>: UPDATE articles SET status = 'archived'
delete_article(a) ==
    /\ events < MaxEvents
    /\ articles[a] # "archived"
    /\ articles' = [articles EXCEPT ![a] = "archived"]
    /\ events' = events + 1
    /\ UNCHANGED <<now, interactions, recCache, memo, redisClient, h, started>>
    /\ UNCHANGED keyVars
    /\ UNCHANGED sideVars
    /\ UNCHANGED utilVars

\* POST /interactions: INSERT INTO user_interactions
create_interaction(user, a, type) ==
    /\ events < MaxEvents
    /\ <<user, a, type>> \notin interactions
    /\ interactions' = interactions \cup {<<user, a, type>>}
    /\ events' = events + 1
    /\ UNCHANGED <<now, articles, recCache, memo, redisClient, h, started>>
    /\ UNCHANGED keyVars
    /\ UNCHANGED sideVars
    /\ UNCHANGED utilVars

\* the ranked lists the generation job writes
RankedMissing == <<MissingId, "a2", "a1">>

RankedOrder == <<"a3", "a1", "a3">>

\* cache row as create_sample_recommendations inserts it
CacheRow(user, ids, written, lifetime, active) ==
    [user_id |-> user, recommended_articles |-> ids,
     model_ensemble |-> "two_tower+cnn+diversity_rerank",
     cache_timestamp |-> written, expiry_timestamp |-> written + lifetime,
     is_active |-> active]

\* the rows the job may have written before the first request: valid for less
\* than a memo entry or for a day, for either user, one of them retired
CandidateRows ==
    { CacheRow("u1", RankedMissing, 0, TickLength, TRUE),
      CacheRow("u1", RankedOrder, 0, TickLength, TRUE),
      CacheRow("u1", RankedOrder, 0, 24 * FallbackLifetime, TRUE),
      CacheRow("u1", <<>>, 0, 24 * FallbackLifetime, TRUE),
      CacheRow("u1", RankedOrder, 0, 24 * FallbackLifetime, FALSE),
      CacheRow("u2", RankedMissing, 0, 24 * FallbackLifetime, TRUE) }

\* the job retires a row: is_active = false
DeactivateRow(row) ==
    /\ row \in recCache
    /\ row.is_active
    /\ events < MaxEvents
    /\ events' = events + 1
    /\ recCache' = (recCache \ {row}) \cup {[row EXCEPT !.is_active = FALSE]}
    /\ UNCHANGED <<now, articles, interactions, memo, redisClient, h, started>>
    /\ UNCHANGED keyVars
    /\ UNCHANGED sideVars
    /\ UNCHANGED utilVars

\* no like_article and no create_donation call has been made
InitSide ==
    /\ likeRows = [u \in Users |-> 0]
    /\ likeCount = 0
    /\ liker = [p \in Procs |-> IdleLiker]
    /\ payments = {}
    /\ tasks = {}
    /\ donation = [p \in Procs |-> IdleDonation]

InitStores ==
    /\ InitSide
    /\ now = 0
    /\ articles = [a \in ArticleIds |-> IF a = "a3" THEN "draft" ELSE "published"]
    /\ interactions = {<<"u1", "a1", "view">>, <<"u2", "a2", "share">>}
    /\ recCache \in {T \in SUBSET CandidateRows : Cardinality(T) <= MaxRows}
    /\ memo = <<>>
    /\ redisClient = "none"
    /\ h = [p \in Procs |-> IdleHandler]
    /\ started = 0
    /\ events = 0

Init ==
    /\ InitStores
    /\ kwSeed = 0
    /\ kwArgs = <<>>
    /\ kwKey = cache_key_generator(<<>>, <<>>, 0)
    /\ fnIn = <<>>
    /\ fnOut = <<>>

Next ==
    \/ \E p \in Workers, rq \in Requests : Begin(p, rq[1], rq[2])
    \/ \E p \in Workers : MemoGet(p)
    \/ \E p \in Workers : DurableLookup(p)
    \/ \E p \in Workers : ArticleFetch(p)
    \/ \E p \in Workers : TrendingFetch(p)
    \/ \E p \in Workers : MemoSet(p)
    \/ \E p \in Workers : Return(p)
    \/ Tick
    \/ \E a \in ArticleIds, st \in {"published", "blocked"} : update_article(a, st)
    \/ \E a \in ArticleIds : delete_article(a)
    \/ \E row \in recCache : DeactivateRow(row)

Spec == Init /\ [][Next]_vars

(***************************************************************************)
(* cache_key_generator on its own: a caller passes keyword arguments, one  *)
(* more at a time, in any order.                                           *)
(***************************************************************************)
Seeds == {0, 1}

KwValues(name) ==
    CASE name = "user_id" -> {PyStrV("u1"), PyStrV("u2")}
      [] name = "limit" -> {PyInt(1), PyInt(20)}
      [] name = "categories" -> {PyNone, PyList(<<"tech", "sports">>)}
      [] name = "exclude_read" -> {PyBool(TRUE), PyBool(FALSE)}
      [] name = "debug" -> {PyBool(TRUE)}
      [] OTHER -> {PyFloat("0.3")}

\* the caller passes one more keyword argument
AddKw(name, val) ==
    /\ Len(kwArgs) < MaxKwargs
    /\ \A i \in 1..Len(kwArgs) : kwArgs[i][1] # name
    /\ kwArgs' = Append(kwArgs, <<name, val>>)
    /\ kwKey' = cache_key_generator(<<>>, kwArgs', kwSeed)
    /\ UNCHANGED kwSeed
    /\ UNCHANGED resolverVars
    /\ UNCHANGED utilVars
    /\ UNCHANGED sideVars

\* the caller starts over
ClearKw ==
    /\ kwArgs # <<>>
    /\ kwArgs' = <<>>
    /\ kwKey' = cache_key_generator(<<>>, <<>>, kwSeed)
    /\ UNCHANGED kwSeed
    /\ UNCHANGED resolverVars
    /\ UNCHANGED utilVars
    /\ UNCHANGED sideVars

InitKey ==
    /\ InitStores
    /\ recCache = {}
    /\ kwSeed \in Seeds
    /\ kwArgs = <<>>
    /\ kwKey = cache_key_generator(<<>>, <<>>, kwSeed)
    /\ fnIn = <<>>
    /\ fnOut = <<>>

NextKey ==
    \/ \E name \in Range(NameOrder) : \E val \in KwValues(name) : AddKw(name, val)
    \/ ClearKw

SpecKey == InitKey /\ [][NextKey]_vars

(***************************************************************************)
(* The text utilities.  A str is the sequence of its characters.           *)
(***************************************************************************)
\* the characters str.split() splits on
WhiteSpace == {" ", "\n", "\t"}

Max(a, b) == IF a > b THEN a ELSE b

\* len(s.split()): a token starts where a character that is not white space
\* follows the start of the string or white space
WordCount(s) ==
    Cardinality({i \in 1..Len(s) :
                    s[i] \notin WhiteSpace /\ (i = 1 \/ s[i - 1] \in WhiteSpace)})

\* round(n / d) for n >= 0, d > 0: to the nearest integer, halves to the even
\* one
PyRound(n, d) ==
    LET q == n \div d
        r == n % d
    IN  IF 2 * r < d THEN q
        ELSE IF 2 * r > d THEN q + 1
        ELSE IF q % 2 = 0 THEN q ELSE q + 1

\* a plausible slip: no floor of one minute
calculate_reading_time_NoFloor(content) == PyRound(WordCount(content), 200)

calculate_reading_time(content) == Max(1, PyRound(WordCount(content), 200))

calculate_word_count(content) == WordCount(content)

\* s, n times over
Times(s, n) == [i \in 1..(Len(s) * n) |-> s[((i - 1) % Len(s)) + 1]]

\* characters typed one at a time
MaxChars == 4

\* how often a typed text gets pasted to make a long one
PasteCounts == {50, 100, 150, 250}

TextChars == {"w", " ", "\n"}

\* the caller's content grows by one character
TypeChar(c) ==
    /\ Len(fnIn.content) < MaxChars
    /\ fnIn' = [fnIn EXCEPT !.content = Append(@, c)]
    /\ fnOut' = calculate_reading_time(fnIn'.content)
    /\ UNCHANGED resolverVars
    /\ UNCHANGED keyVars
    /\ UNCHANGED sideVars

\* the caller's content becomes k copies of itself
Paste(k) ==
    /\ fnIn.content # <<>>
    /\ Len(fnIn.content) <= MaxChars
    /\ fnIn' = [fnIn EXCEPT !.content = Times(@, k)]
    /\ fnOut' = calculate_reading_time(fnIn'.content)
    /\ UNCHANGED resolverVars
    /\ UNCHANGED keyVars
    /\ UNCHANGED sideVars

\* the stores and the cache key check at rest
InitRest ==
    /\ InitStores
    /\ recCache = {}
    /\ kwSeed = 0
    /\ kwArgs = <<>>
    /\ kwKey = cache_key_generator(<<>>, <<>>, 0)

InitReading ==
    /\ InitRest
    /\ fnIn = [content |-> <<>>]
    /\ fnOut = calculate_reading_time(<<>>)

NextReading ==
    \/ \E c \in TextChars : TypeChar(c)
    \/ \E k \in PasteCounts : Paste(k)

SpecReading == InitReading /\ [][NextReading]_vars

(***************************************************************************)
(* The scores.  A float with at most two decimals is kept in hundredths;   *)
(* the intermediate products are kept exactly, in smaller units.           *)
(***************************************************************************)
\* a plausible slip: the bucket bounds are exclusive
TimeFactor_Exclusive(age) ==
    IF age < 3600 THEN 10
    ELSE IF age < 24 * 3600 THEN 8
    ELSE IF age < 72 * 3600 THEN 6
    ELSE IF age < 168 * 3600 THEN 4
    ELSE 1

\* time_factor, in tenths, for (current_time - published_at).total_seconds()
\* = age: hours_since_published <= 1, <= 24, <= 72, <= 168
TimeFactor(age) ==
    IF age <= 3600 THEN 10
    ELSE IF age <= 24 * 3600 THEN 8
    ELSE IF age <= 72 * 3600 THEN 6
    ELSE IF age <= 168 * 3600 THEN 4
    ELSE 1

\* views * 0.1 + likes * 2 + shares * 3 + comments * 2.5, in tenths
ActivityScore(views, likes, shares, comments) ==
    views + likes * 20 + shares * 30 + comments * 25

\* round(x, 2) of x = n / d, in hundredths
Round2(n, d) == PyRound(100 * n, d)

\* calculate_trending_score, in hundredths
calculate_trending_score(views, likes, shares, comments, age) ==
    Round2(ActivityScore(views, likes, shares, comments) * TimeFactor(age), 100)

ViewCounts == {0, 1, 3, 100}

LikeCounts == {0, 1, 10}

ShareCounts == {0, 5}

CommentCounts == {0, 1, 2}

\* ages in seconds: published a minute ahead of the clock, just now, half an
\* hour ago, and at and just past each bucket bound
Ages ==
    {-60, 0, 1800, 3600, 3601, 24 * 3600, 24 * 3600 + 1, 72 * 3600,
     72 * 3600 + 1, 168 * 3600, 168 * 3600 + 1}

TrendingOf(in) ==
    calculate_trending_score(in.views, in.likes, in.shares, in.comments, in.age)

\* the score is taken again when the article is a seconds old
Elapse(a) ==
    /\ a > fnIn.age
    /\ fnIn' = [fnIn EXCEPT !.age = a]
    /\ fnOut' = TrendingOf(fnIn')
    /\ UNCHANGED resolverVars
    /\ UNCHANGED keyVars
    /\ UNCHANGED sideVars

InitTrending ==
    /\ InitRest
    /\ fnIn \in [views : ViewCounts, likes : LikeCounts, shares : ShareCounts,
                 comments : CommentCounts, age : {-60, 0}]
    /\ fnOut = TrendingOf(fnIn)

NextTrending == \E a \in Ages : Elapse(a)

SpecTrending == InitTrending /\ [][NextTrending]_vars

(***************************************************************************)
(* calculate_quality_score.                                                *)
(***************************************************************************)
\* an absent summary (None), and a summary of the given characters
NoSummary == [t |-> "none", v |-> <<>>]

Summary(s) == [t |-> "str", v |-> s]

\* a plausible slip: the length score is taken from the characters
LengthScore_Chars(content) ==
    IF Len(content) >= 500 THEN 30
    ELSE IF Len(content) >= 300 THEN 20
    ELSE IF Len(content) >= 150 THEN 10
    ELSE 0

\* lines 82-88
LengthScore(content) ==
    LET word_count == calculate_word_count(content) IN
    IF word_count >= 500 THEN 30
    ELSE IF word_count >= 300 THEN 20
    ELSE IF word_count >= 150 THEN 10
    ELSE 0

\* a plausible slip: a title outside 3..15 words scores nothing
TitleScore_NoBase(title) ==
    LET title_word_count == WordCount(title) IN
    IF 5 <= title_word_count /\ title_word_count <= 12 THEN 20
    ELSE IF 3 <= title_word_count /\ title_word_count <= 15 THEN 15
    ELSE 0

\* lines 91-97
TitleScore(title) ==
    LET title_word_count == WordCount(title) IN
    IF 5 <= title_word_count /\ title_word_count <= 12 THEN 20
    ELSE IF 3 <= title_word_count /\ title_word_count <= 15 THEN 15
    ELSE 5

\* len(s.strip())
StripLen(s) ==
    LET inked == {i \in 1..Len(s) : s[i] \notin WhiteSpace} IN
    IF inked = {} THEN 0
    ELSE (CHOOSE i \in inked : \A j \in inked : j <= i)
            - (CHOOSE i \in inked : \A j \in inked : i <= j) + 1

\* lines 100-103: None and "" are falsy
SummaryScore(summary) ==
    LET present == summary.t = "str" /\ summary.v # <<>> IN
    IF present /\ StripLen(summary.v) > 50 THEN 15
    ELSE IF present THEN 10
    ELSE 0

\* len(content.split('.'))
SentenceCount(content) ==
    Cardinality({i \in 1..Len(content) : content[i] = "."}) + 1

\* sum(len(s.split()) for s in sentences): a token starts after the start of
\* the string, a full stop or white space
SentenceWords(content) ==
    LET gap == WhiteSpace \cup {"."} IN
    Cardinality({i \in 1..Len(content) :
                    content[i] \notin gap /\ (i = 1 \/ content[i - 1] \in gap)})

\* lines 106-114: content.split('.') is never empty
ReadabilityScore(content) ==
    LET total == SentenceWords(content)
        n == SentenceCount(content)
    IN  IF 10 * n <= total /\ total <= 20 * n THEN 20
        ELSE IF 5 * n <= total /\ total <= 25 * n THEN 15
        ELSE 10

\* the length of the run of newlines that ends just before position i
NewlinesBefore(s, i) ==
    CHOOSE r \in 0..(i - 1) :
        /\ (r = i - 1 \/ s[i - 1 - r] # "\n")
        /\ \A q \in 1..r : s[i - q] = "\n"

\* len(content.split('\n\n')): the separators are found left to right and
\* do not overlap
ParagraphCount(content) ==
    Cardinality({i \in 1..(Len(content) - 1) :
                    /\ content[i] = "\n"
                    /\ content[i + 1] = "\n"
                    /\ NewlinesBefore(content, i) % 2 = 0}) + 1

\* lines 117-123
StructureScore(content) ==
    LET paragraphs == ParagraphCount(content) IN
    IF paragraphs >= 3 THEN 15
    ELSE IF paragraphs >= 2 THEN 10
    ELSE 5

\* calculate_quality_score, in hundredths, with what each step added to
\* score
calculate_quality_score(content, title, summary) ==
    LET length == LengthScore(content)
        ofTitle == TitleScore(title)
        ofSummary == SummaryScore(summary)
        readability == ReadabilityScore(content)
        structure == StructureScore(content)
        score == length + ofTitle + ofSummary + readability + structure
    IN  [length |-> length, title |-> ofTitle, summary |-> ofSummary,
         readability |-> readability, structure |-> structure,
         score |-> Round2(Min(score, 100), 1)]

\* the pieces a content is put together from: a word, ten words, a full
\* stop, a paragraph break
QualityBlocks ==
    { <<"w", " ">>, Times(<<"w", " ">>, 10), <<".">>, <<"\n", "\n">> }

\* pieces in a content before it is pasted
MaxBlocks == 4

QualityPastes == {15, 50}

RECURSIVE Flatten(_)
Flatten(blocks) ==
    IF blocks = <<>> THEN <<>> ELSE Head(blocks) \o Flatten(Tail(blocks))

\* the titles and summaries tried: titles of so many words, summaries absent,
\* empty, blank, of 50 and of 51 characters, and of 50 between blanks
QualityCases ==
    { [title_words |-> 0, summary |-> NoSummary],
      [title_words |-> 2, summary |-> Summary(<<>>)],
      [title_words |-> 3, summary |-> Summary(<<" ">>)],
      [title_words |-> 5, summary |-> Summary(Times(<<"s">>, 51))],
      [title_words |-> 12, summary |-> Summary(Times(<<"s">>, 50))],
      [title_words |-> 13, summary |-> Summary(<<" ">> \o Times(<<"s">>, 50) \o <<" ">>)],
      [title_words |-> 15, summary |-> NoSummary],
      [title_words |-> 16, summary |-> Summary(Times(<<"s">>, 51))] }

ContentOf(in) == Times(Flatten(in.blocks), in.paste)

TitleOf(in) == Times(<<"w", " ">>, in.title_words)

QualityOf(in) == calculate_quality_score(ContentOf(in), TitleOf(in), in.summary)

\* the content grows by one piece
AddBlock(b) ==
    /\ fnIn.paste = 1
    /\ Len(fnIn.blocks) < MaxBlocks
    /\ fnIn' = [fnIn EXCEPT !.blocks = Append(@, b)]
    /\ fnOut' = QualityOf(fnIn')
    /\ UNCHANGED resolverVars
    /\ UNCHANGED keyVars
    /\ UNCHANGED sideVars

\* the content becomes k copies of itself
PasteContent(k) ==
    /\ fnIn.paste = 1
    /\ fnIn.blocks # <<>>
    /\ fnIn' = [fnIn EXCEPT !.paste = k]
    /\ fnOut' = QualityOf(fnIn')
    /\ UNCHANGED resolverVars
    /\ UNCHANGED keyVars
    /\ UNCHANGED sideVars

InitQuality ==
    /\ InitRest
    /\ \E c \in QualityCases :
          fnIn = [blocks |-> <<>>, paste |-> 1, title_words |-> c.title_words,
                  summary |-> c.summary]
    /\ fnOut = QualityOf(fnIn)

NextQuality ==
    \/ \E b \in QualityBlocks : AddBlock(b)
    \/ \E k \in QualityPastes : PasteContent(k)

SpecQuality == InitQuality /\ [][NextQuality]_vars

(***************************************************************************)
(* extract_keywords.                                                       *)
(***************************************************************************)
stop_words ==
    {"the", "a", "an", "and", "or", "but", "in", "on", "at", "to", "for", "of",
     "with", "by", "is", "are", "was", "were", "be", "been", "have", "has",
     "had", "do", "does", "did", "will", "would", "could", "should", "can",
     "may", "might", "this", "that", "these", "those", "i", "you", "he", "she",
     "it", "we", "they", "me", "him", "her", "us", "them"}

\* the letters in use, and the other characters \w matches
LowerLetters == {"a", "c", "d", "e", "g", "h", "o", "t", "x"}

UpperLetters == {"C"}

OtherWordChars == {"1", "_"}

IsLetter(c) == c \in LowerLetters \cup UpperLetters

IsWordChar(c) == IsLetter(c) \/ c \in OtherWordChars

\* content.lower()
LowerChar(c) == IF c = "C" THEN "c" ELSE c

LowerStr(s) == [i \in 1..Len(s) |-> LowerChar(s[i])]

\* \b at the gap before position i of s
Boundary(s, i) ==
    LET before == i > 1 /\ IsWordChar(s[i - 1])
        after == i <= Len(s) /\ IsWordChar(s[i])
    IN  before # after

\* the end of the longest run of letters that starts at i
RunEnd(s, i) ==
    CHOOSE e \in i..Len(s) :
        /\ \A k \in i..e : IsLetter(s[k])
        /\ e = Len(s) \/ ~IsLetter(s[e + 1])

\* [a-zA-Z]{3,}\b from position i: the greedy run, then shorter ones; the
\* end of the match, or 0
MatchEnd(s, i) ==
    LET ends == {e \in (i + 2)..RunEnd(s, i) : Boundary(s, e + 1)} IN
    IF ends = {} THEN 0 ELSE CHOOSE e \in ends : \A f \in ends : f <= e

RECURSIVE FindAllFrom(_, _)
\* re.findall(r'\b[a-zA-Z]{3,}\b', s), scanning from position i
FindAllFrom(s, i) ==
    IF i > Len(s) THEN <<>>
    ELSE IF IsLetter(s[i]) /\ Boundary(s, i) /\ MatchEnd(s, i) # 0
         THEN <<JoinWith("", SubSeq(s, i, MatchEnd(s, i)))>>
                 \o FindAllFrom(s, MatchEnd(s, i) + 1)
         ELSE FindAllFrom(s, i + 1)

RECURSIVE CountWords(_, _)
\* the loop of lines 45-47; the dict keeps its keys in insertion order
CountWords(words, word_count) ==
    IF words = <<>> THEN word_count
    ELSE LET word == Head(words)
             at == {i \in 1..Len(word_count) : word_count[i][1] = word}
         IN  IF word \in stop_words THEN CountWords(Tail(words), word_count)
             ELSE IF at = {}
             THEN CountWords(Tail(words), Append(word_count, <<word, 1>>))
             ELSE CountWords(Tail(words),
                     [word_count EXCEPT ![CHOOSE i \in at : TRUE] = <<word, @[2] + 1>>])

\* a plausible slip: of two words with the same count the later comes first
InsertByCount_TiesReversed(item, sorted) ==
    LET ahead == {i \in 1..Len(sorted) : sorted[i][2] > item[2]}
        n == Cardinality(ahead)
    IN  SubSeq(sorted, 1, n) \o <<item>> \o SubSeq(sorted, n + 1, Len(sorted))

\* item goes behind every entry whose count is at least its own
InsertByCount(item, sorted) ==
    LET ahead == {i \in 1..Len(sorted) : sorted[i][2] >= item[2]}
        n == Cardinality(ahead)
    IN  SubSeq(sorted, 1, n) \o <<item>> \o SubSeq(sorted, n + 1, Len(sorted))

RECURSIVE SortByCount(_, _)
\* sorted(word_count.items(), key=lambda x: x[1], reverse=True): stable
SortByCount(items, sorted) ==
    IF items = <<>> THEN sorted
    ELSE SortByCount(Tail(items), InsertByCount(Head(items), sorted))

extract_keywords(content, max_keywords) ==
    LET words == FindAllFrom(LowerStr(content), 1)
        word_count == CountWords(words, <<>>)
        sorted_words == SortByCount(word_count, <<>>)
        top == Take(sorted_words, max_keywords)
    IN  [i \in 1..Len(top) |-> top[i][1]]

\* the pieces a content is put together from
KeywordPieces ==
    { <<"t", "h", "e", " ">>, <<"c", "a", "t", " ">>, <<"C", "a", "t">>,
      <<"d", "o", "g", " ">>, <<"o", "x", " ">>, <<"1">>, <<"-">> }

\* pieces in a content
MaxPieces == 4

KeywordLimits == {0, 1, 3}

KeywordsOf(in) == extract_keywords(Flatten(in.pieces), in.max_keywords)

\* the content grows by one piece
AddPiece(p) ==
    /\ Len(fnIn.pieces) < MaxPieces
    /\ fnIn' = [fnIn EXCEPT !.pieces = Append(@, p)]
    /\ fnOut' = KeywordsOf(fnIn')
    /\ UNCHANGED resolverVars
    /\ UNCHANGED keyVars
    /\ UNCHANGED sideVars

InitKeywords ==
    /\ InitRest
    /\ fnIn \in [pieces : {<<>>}, max_keywords : KeywordLimits]
    /\ fnOut = KeywordsOf(fnIn)

NextKeywords == \E p \in KeywordPieces : AddPiece(p)

SpecKeywords == InitKeywords /\ [][NextKeywords]_vars

(***************************************************************************)
(* calculate_engagement_score.  A quotient is kept as <<numerator,         *)
(* denominator>> with a positive denominator.                              *)
(***************************************************************************)
\* a plausible slip: the completion rate is not capped
CompletionRate_Uncapped(reading_time, time_spent_avg) ==
    IF reading_time > 0 THEN <<time_spent_avg, reading_time * 60>> ELSE <<0, 1>>

\* min(time_spent_avg / (reading_time * 60), 1.0) if reading_time > 0 else 0
CompletionRate(reading_time, time_spent_avg) ==
    IF reading_time > 0
    THEN IF time_spent_avg < reading_time * 60
         THEN <<time_spent_avg, reading_time * 60>>
         ELSE <<1, 1>>
    ELSE <<0, 1>>

\* count / views if views > 0 else 0
Rate(count, views) == IF views > 0 THEN <<count, views>> ELSE <<0, 1>>

\* (like_rate * 0.3 + share_rate * 0.3 + comment_rate * 0.2
\*   + completion_rate * 0.2) * 100, as a quotient
EngagementExact(views, likes, shares, comments, reading_time, time_spent_avg) ==
    LET v == Rate(1, views)[2]
        on == Rate(1, views)[1]
        c == CompletionRate(reading_time, time_spent_avg)
    IN  << (30 * likes + 30 * shares + 20 * comments) * on * c[2] + 20 * c[1] * v,
           v * c[2] >>

\* round(x, 2) of a float next to the quotient q, in hundredths: the
\* nearest value, and either neighbour when q lies half way, where the error
\* of the float arithmetic decides
Round2Float(q) ==
    LET below == (100 * q[1]) \div q[2] IN
    {r \in below..(below + 1) : 2 * (r * q[2] - 100 * q[1]) \in (-q[2])..q[2]}

\* the values calculate_engagement_score can return, in hundredths
calculate_engagement_score(views, likes, shares, comments, reading_time, time_spent_avg) ==
    IF views = 0 THEN {0}
    ELSE Round2Float(EngagementExact(views, likes, shares, comments,
                                     reading_time, time_spent_avg))

EngagementOf(in) ==
    calculate_engagement_score(in.views, in.likes, in.shares, in.comments,
                               in.reading_time, in.time_spent_avg)

EngagementViews == {1, 3, 7, 16}

EngagementSeconds == {30, 60, 90, 200}

\* the article has been viewed v times by now
Viewed(v) ==
    /\ v > fnIn.views
    /\ fnIn' = [fnIn EXCEPT !.views = v]
    /\ fnOut' \in EngagementOf(fnIn')
    /\ UNCHANGED resolverVars
    /\ UNCHANGED keyVars
    /\ UNCHANGED sideVars

\* the readers have spent t seconds on it on average
Spent(t) ==
    /\ t # fnIn.time_spent_avg
    /\ fnIn' = [fnIn EXCEPT !.time_spent_avg = t]
    /\ fnOut' \in EngagementOf(fnIn')
    /\ UNCHANGED resolverVars
    /\ UNCHANGED keyVars
    /\ UNCHANGED sideVars

InitEngagement ==
    /\ InitRest
    /\ fnIn \in [views : {0}, likes : {0, 1, 2}, shares : {0, 1},
                 comments : {0, 1}, reading_time : {0, 1, 2},
                 time_spent_avg : {0}]
    /\ fnOut \in EngagementOf(fnIn)

NextEngagement ==
    \/ \E v \in EngagementViews : Viewed(v)
    \/ \E t \in EngagementSeconds : Spent(t)

SpecEngagement == InitEngagement /\ [][NextEngagement]_vars

(***************************************************************************)
(* One request of a user whose recommendation_cache holds several rows:    *)
(* written at different times, one run out, one retired, one of another    *)
(* user.                                                                   *)
(***************************************************************************)
RowsWritten ==
    { CacheRow("u1", <<"a1">>, -4 * TickLength, 24 * FallbackLifetime, TRUE),
      CacheRow("u1", <<"a2">>, -3 * TickLength, 24 * FallbackLifetime, TRUE),
      CacheRow("u1", <<"a1", "a2">>, -2 * TickLength, 2 * TickLength, TRUE),
      CacheRow("u1", <<"a2", "a1">>, -TickLength, 24 * FallbackLifetime, FALSE),
      CacheRow("u2", <<"a2">>, 0, 24 * FallbackLifetime, TRUE) }

InitRows ==
    /\ InitSide
    /\ now = 0
    /\ articles = [a \in ArticleIds |-> IF a = "a3" THEN "draft" ELSE "published"]
    /\ interactions = {<<"u1", "a1", "view">>, <<"u2", "a2", "share">>}
    /\ recCache \in {T \in SUBSET RowsWritten :
                        Cardinality(T) > 1 /\ Cardinality(T) <= MaxRows + 1}
    /\ memo = <<>>
    /\ redisClient = "none"
    /\ h = [p \in Procs |-> IdleHandler]
    /\ started = MaxRequests - 1
    /\ events = MaxEvents - 1
    /\ kwSeed = 0
    /\ kwArgs = <<>>
    /\ kwKey = cache_key_generator(<<>>, <<>>, 0)
    /\ fnIn = <<>>
    /\ fnOut = <<>>

SpecRows == InitRows /\ [][Next]_vars

(***************************************************************************)
(* The trending fallback on its own: one request of any filter shape, over *)
(* any publication state of the articles.                                  *)
(***************************************************************************)

\* RecommendationRequest: limit, categories (None, [] or a list of names),
\* exclude_read
FallbackShapes ==
    [ limit : {1, 2, 3},
      categories : {PyNone, PyList(<<>>), PyList(<<"tech">>), PyList(<<"sports">>),
                    PyList(<<"tech", "sports">>)},
      exclude_read : BOOLEAN ]

\* the interaction types of InteractionType a reader adds during the run
FallbackInteractions == {"like", "save", "share", "comment"}

InitFallback ==
    /\ InitSide
    /\ now = 0
    /\ articles \in [ArticleIds -> {"published", "draft"}]
    /\ interactions = {<<"u1", "a1", "view">>, <<"u2", "a2", "share">>}
    /\ recCache \in {T \in SUBSET {CacheRow("u1", RankedOrder, 0, TickLength, TRUE)} :
                        Cardinality(T) <= MaxRows}
    /\ memo = <<>>
    /\ redisClient = "none"
    /\ h = [p \in Procs |-> IdleHandler]
    /\ started = MaxRequests - 1
    /\ events = MaxEvents - 1
    /\ kwSeed = 0
    /\ kwArgs = <<>>
    /\ kwKey = cache_key_generator(<<>>, <<>>, 0)
    /\ fnIn = <<>>
    /\ fnOut = <<>>

NextFallback ==
    \/ \E p \in Workers, req \in FallbackShapes : Begin(p, "u1", req)
    \/ \E p \in Workers : MemoGet(p)
    \/ \E p \in Workers : DurableLookup(p)
    \/ \E p \in Workers : ArticleFetch(p)
    \/ \E p \in Workers : TrendingFetch(p)
    \/ \E p \in Workers : MemoSet(p)
    \/ \E p \in Workers : Return(p)
    \/ Tick
    \/ \E a \in ArticleIds, st \in {"published", "blocked"} : update_article(a, st)
    \/ \E a \in ArticleIds : delete_article(a)
    \/ \E a \in ArticleIds, type \in FallbackInteractions : create_interaction("u1", a, type)
    \/ \E row \in recCache : DeactivateRow(row)

SpecFallback == InitFallback /\ [][NextFallback]_vars

(***************************************************************************)
(* Two invocations at once: both handlers run, for the same user, with     *)
(* request shapes that give the same key or different ones.                *)
(***************************************************************************)

RaceShapes ==
    { [limit |-> 2, categories |-> PyNone, exclude_read |-> FALSE],
      [limit |-> 2, categories |-> PyNone, exclude_read |-> TRUE] }

\* rows of recommendation_cache: an older one that lasts, and the latest,
\* which runs out at the next tick
RaceRows ==
    { CacheRow("u1", RankedOrder, 0 - TickLength, 24 * FallbackLifetime, TRUE),
      CacheRow("u1", <<"a1", "a2">>, 0, TickLength, TRUE) }

InitRace ==
    /\ InitSide
    /\ now = 0
    /\ articles = [a \in ArticleIds |-> IF a = "a3" THEN "draft" ELSE "published"]
    /\ interactions = {<<"u1", "a1", "view">>, <<"u2", "a2", "share">>}
    /\ recCache \in {T \in SUBSET RaceRows : Cardinality(T) <= MaxRows}
    /\ memo = <<>>
    /\ redisClient = "none"
    /\ h = [p \in Procs |-> IdleHandler]
    /\ started = MaxRequests - 2
    /\ events = MaxEvents - 1
    /\ kwSeed = 0
    /\ kwArgs = <<>>
    /\ kwKey = cache_key_generator(<<>>, <<>>, 0)
    /\ fnIn = <<>>
    /\ fnOut = <<>>

NextRace ==
    \/ \E p \in Procs, req \in RaceShapes : Begin(p, "u1", req)
    \/ \E p \in Procs : MemoGet(p)
    \/ \E p \in Procs : DurableLookup(p)
    \/ \E p \in Procs : ArticleFetch(p)
    \/ \E p \in Procs : TrendingFetch(p)
    \/ \E p \in Procs : MemoSet(p)
    \/ \E p \in Procs : Return(p)
    \/ Tick
    \/ \E a \in ArticleIds, st \in {"published", "blocked"} : update_article(a, st)
    \/ \E a \in ArticleIds : delete_article(a)
    \/ \E a \in ArticleIds : create_interaction("u1", a, "like")
    \/ \E row \in recCache : DeactivateRow(row)

SpecRace == InitRace /\ [][NextRace]_vars

(***************************************************************************)
(* Request bodies.  A body is the JSON object of the POST, as the list of  *)
(* its members; RecommendationRequest validates it, filling in defaults    *)
(* and ignoring the members it does not declare.                           *)
(***************************************************************************)
MaxFields == 2

\* the members a client sends, "debug" being one the model does not declare
BodyValues(name) ==
    CASE name = "limit" -> {PyInt(20), PyInt(2)}
      [] name = "exclude_read" -> {PyBool(TRUE), PyBool(FALSE)}
      [] name = "categories" -> {PyNone}
      [] OTHER -> {PyBool(TRUE)}

BodyNames == {"limit", "exclude_read", "categories", "debug"}

HasField(body, name) == \E i \in 1..Len(body) : body[i][1] = name

FieldOf(body, name) == body[CHOOSE i \in 1..Len(body) : body[i][1] = name][2]

\* RecommendationRequest(**data): limit = 20, categories = None and
\* exclude_read = True unless given; undeclared members are dropped
Validate(body) ==
    [limit |-> IF HasField(body, "limit") THEN FieldOf(body, "limit").v ELSE 20,
     categories |-> IF HasField(body, "categories") THEN FieldOf(body, "categories")
                    ELSE PyNone,
     exclude_read |-> IF HasField(body, "exclude_read")
                      THEN FieldOf(body, "exclude_read").v ELSE TRUE]

\* data['user_id'] = user_id
WithUserId(body, user) ==
    SelectSeq(body, LAMBDA m : m[1] # "user_id") \o << <<"user_id", PyStrV(user)>> >>

\* fastapi_app: f"recommendations:{user_id}:{cache_key_generator(**req_data.dict())}"
FastapiKey(user, body, seed) == CacheKey(user, Validate(body), seed)

\* flask_app: f"recommendations:{user_id}:{cache_key_generator(**data)}"
FlaskKey(user, body, seed) ==
    "recommendations:" \o user \o ":"
        \o cache_key_generator(<<>>, WithUserId(body, user), seed)

KeysOf(in) ==
    [fastapi |-> <<FastapiKey("u1", in.first, 0), FastapiKey("u1", in.second, 0)>>,
     flask |-> <<FlaskKey("u1", in.first, 0), FlaskKey("u1", in.second, 0)>>]

\* the client adds a member to the first or to the second body
AddField(which, name, val) ==
    /\ Len(fnIn[which]) < MaxFields
    /\ ~HasField(fnIn[which], name)
    /\ fnIn' = [fnIn EXCEPT ![which] = Append(@, <<name, val>>)]
    /\ fnOut' = KeysOf(fnIn')
    /\ UNCHANGED resolverVars
    /\ UNCHANGED keyVars
    /\ UNCHANGED sideVars

InitBodies ==
    /\ InitRest
    /\ fnIn = [first |-> <<>>, second |-> <<>>]
    /\ fnOut = KeysOf(fnIn)

NextBodies ==
    \E which \in {"first", "second"}, name \in BodyNames :
        \E val \in BodyValues(name) : AddField(which, name, val)

SpecBodies == InitBodies /\ [][NextBodies]_vars

(***************************************************************************)
(* Progress.  The Redis client is built with socket_timeout and            *)
(* socket_connect_timeout of 5 seconds, so a call on it returns or raises. *)
(* psycopg2.connect is given, in postgres_config, neither connect_timeout *)
(* nor a statement timeout: against a server that does not answer, the     *)
(* connect or the execute of a request returns, raises, or never returns.  *)
(***************************************************************************)

\* the connect or the query in progress gets no answer, and nothing bounds
\* the wait
QueryBlocks(p) ==
    /\ h[p].pc \in {"db_cache", "db_articles", "db_trending"}
    /\ h' = [h EXCEPT ![p] = [@ EXCEPT !.pc = "blocked"]]
    /\ UNCHANGED <<now, articles, interactions, recCache, memo, redisClient,
                   started, events>>
    /\ UNCHANGED keyVars
    /\ UNCHANGED sideVars
    /\ UNCHANGED utilVars

InitLive ==
    /\ InitSide
    /\ now = 0
    /\ articles = [a \in ArticleIds |-> IF a = "a3" THEN "draft" ELSE "published"]
    /\ interactions = {<<"u1", "a1", "view">>, <<"u2", "a2", "share">>}
    /\ recCache \in {T \in SUBSET CandidateRows : Cardinality(T) <= MaxRows}
    /\ memo = <<>>
    /\ redisClient = "none"
    /\ h = [p \in Procs |-> IdleHandler]
    /\ started = MaxRequests - 1
    /\ events = MaxEvents - 1
    /\ kwSeed = 0
    /\ kwArgs = <<>>
    /\ kwKey = cache_key_generator(<<>>, <<>>, 0)
    /\ fnIn = <<>>
    /\ fnOut = <<>>

\* the steps of the handler of p
HandlerStep(p) ==
    \/ MemoGet(p)
    \/ DurableLookup(p)
    \/ ArticleFetch(p)
    \/ TrendingFetch(p)
    \/ MemoSet(p)
    \/ Return(p)

NextLive ==
    \/ \E p \in Workers, rq \in Requests : Begin(p, rq[1], rq[2])
    \/ \E p \in Workers : HandlerStep(p)
    \/ \E p \in Workers : QueryBlocks(p)
    \/ Tick
    \/ \E a \in ArticleIds, st \in {"published", "blocked"} : update_article(a, st)
    \/ \E a \in ArticleIds : delete_article(a)
    \/ \E row \in recCache : DeactivateRow(row)

\* the server runs every handler that can take a step
SpecLive ==
    /\ InitLive
    /\ [][NextLive]_vars
    /\ \A p \in Workers : WF_vars(HandlerStep(p))

(***************************************************************************)
(* Two users at once: each handler serves one request, of either user,     *)
(* with the same request shape.                                            *)
(***************************************************************************)

UsersShape == [limit |-> 2, categories |-> PyNone, exclude_read |-> TRUE]

\* rows of recommendation_cache for the two users
UsersRows ==
    { CacheRow("u1", <<"a1", "a2">>, 0, TickLength, TRUE),
      CacheRow("u2", <<"a2", "a1">>, 0, 24 * FallbackLifetime, TRUE) }

InitUsers ==
    /\ InitSide
    /\ now = 0
    /\ articles = [a \in ArticleIds |-> IF a = "a3" THEN "draft" ELSE "published"]
    /\ interactions = {<<"u1", "a1", "view">>, <<"u2", "a2", "share">>}
    /\ recCache \in {T \in SUBSET UsersRows : Cardinality(T) <= MaxRows}
    /\ memo = <<>>
    /\ redisClient = "none"
    /\ h = [p \in Procs |-> IdleHandler]
    /\ started = MaxRequests - 2
    /\ events = MaxEvents - 1
    /\ kwSeed = 0
    /\ kwArgs = <<>>
    /\ kwKey = cache_key_generator(<<>>, <<>>, 0)
    /\ fnIn = <<>>
    /\ fnOut = <<>>

NextUsers ==
    \/ \E p \in Procs, user \in Users : h[p].pc = "idle" /\ Begin(p, user, UsersShape)
    \/ \E p \in Procs : HandlerStep(p)
    \/ Tick
    \/ \E a \in ArticleIds, st \in {"published", "blocked"} : update_article(a, st)
    \/ \E a \in ArticleIds : delete_article(a)
    \/ \E row \in recCache : DeactivateRow(row)

SpecUsers == InitUsers /\ [][NextUsers]_vars

(***************************************************************************)
(* like_article.  Each call runs in its own transaction (READ COMMITTED,   *)
(* committed when the cursor's with-block ends): its SELECT reads what is  *)
(* committed; its DELETE or INSERT and its UPDATE of like_count take       *)
(* effect, for the others, at the commit, and act on the rows committed by *)
(* then.  The sources show no unique constraint on user_interactions.      *)
(***************************************************************************)
LikeApps == {"fastapi", "flask"}

\* the number of 'like' rows on the article
LikeRowCount(rows) == rows["u1"] + rows["u2"]

\* SELECT id FROM user_interactions WHERE user_id = %s AND article_id = %s
\*   AND interaction_type = 'like'; Flask answers 409 if there is one
LikeSelect(p, user, app) ==
    /\ liker[p].pc \in {"idle", "done"}
    /\ started < MaxRequests
    /\ started' = started + 1
    /\ LET seen == likeRows[user] > 0 IN
       liker' = [liker EXCEPT ![p] =
                    [pc |-> IF app = "flask" /\ seen THEN "done" ELSE "selected",
                     user_id |-> user, app |-> app, existing_like |-> seen,
                     http |-> IF app = "flask" /\ seen THEN 409 ELSE 0]]
    /\ UNCHANGED <<likeRows, likeCount>>
    /\ UNCHANGED <<now, articles, interactions, recCache, memo, redisClient, h, events>>
    /\ UNCHANGED donationVars
    /\ UNCHANGED keyVars
    /\ UNCHANGED utilVars

\* UPDATE articles SET like_count = like_count - 1 WHERE id = %s AND like_count > 0
Unliked(n) == IF n > 0 THEN n - 1 ELSE n

\* the DELETE and the UPDATE of an unlike, or the INSERT and the UPDATE of a
\* like, and the commit; or an error, and the rollback
LikeWrite(p) ==
    /\ liker[p].pc = "selected"
    /\ LET r == liker[p] IN
       \/ /\ liker' = [liker EXCEPT ![p] = [r EXCEPT !.pc = "done", !.http = 500]]
          /\ UNCHANGED <<likeRows, likeCount>>
       \/ /\ r.existing_like
          /\ likeRows' = [likeRows EXCEPT ![r.user_id] = 0]
          /\ likeCount' = Unliked(likeCount)
          /\ liker' = [liker EXCEPT ![p] = [r EXCEPT !.pc = "done", !.http = 200]]
       \/ /\ ~r.existing_like
          /\ likeRows' = [likeRows EXCEPT ![r.user_id] = @ + 1]
          /\ likeCount' = likeCount + 1
          /\ liker' = [liker EXCEPT ![p] = [r EXCEPT !.pc = "done", !.http = 200]]
    /\ UNCHANGED resolverVars
    /\ UNCHANGED donationVars
    /\ UNCHANGED keyVars
    /\ UNCHANGED utilVars

\* like_count equals the number of 'like' rows, at most one per user
InitLikes ==
    /\ likeRows \in [Users -> {0, 1}]
    /\ likeCount = LikeRowCount(likeRows)
    /\ liker = [p \in Procs |-> IdleLiker]
    /\ payments = {}
    /\ tasks = {}
    /\ donation = [p \in Procs |-> IdleDonation]
    /\ articles = [a \in ArticleIds |-> IF a = "a3" THEN "draft" ELSE "published"]
    /\ interactions = {<<"u1", "a1", "view">>, <<"u2", "a2", "share">>}
    /\ recCache = {}
    /\ memo = <<>>
    /\ redisClient = "none"
    /\ h = [p \in Procs |-> IdleHandler]
    /\ started = MaxRequests - 2
    /\ events = 0
    /\ kwSeed = 0
    /\ kwArgs = <<>>
    /\ kwKey = cache_key_generator(<<>>, <<>>, 0)
    /\ fnIn = <<>>
    /\ fnOut = <<>>
    /\ now = 0

NextLikes ==
    \/ \E p \in Procs, user \in Users, app \in LikeApps : LikeSelect(p, user, app)
    \/ \E p \in Procs : LikeWrite(p)

SpecLikes == InitLikes /\ [][NextLikes]_vars

(***************************************************************************)
(* create_donation.  get_postgres_cursor yields a RealDictCursor, whose    *)
(* rows are dicts keyed by column name.  Line 71 reads the article row by  *)
(* position, article_result[1], which raises KeyError; a missing article   *)
(* raises HTTPException(404) at line 66.  Both are raised inside the try   *)
(* of line 54 and caught by `except Exception` at line 191, which answers  *)
(* 500.  Nothing after line 71 runs: neither the INSERT of lines 107-148   *)
(* nor add_task at line 152.                                               *)
(***************************************************************************)

\* articles.author_id
Author == [a \in ArticleIds |-> IF a = "a2" THEN "u2" ELSE "u1"]

\* users.did_address, "" standing for NULL
DidAddress == [u \in Users |-> IF u = "u2" THEN "0xA2" ELSE ""]

\* a plausible slip: the handler keeps a 'failed' row of the attempt
OnDonationError_Recorded(rows, r) ==
    rows \cup {[donor_id |-> r.donor, article_id |-> r.article_id,
                payment_status |-> "failed", confirmed_at |-> 0]}

\* except Exception as e: logger.error(...): author_payments is left alone
OnDonationError(rows, r) == rows

\* POST /donate by an authenticated user
DonationBegin(p, user, a, anon) ==
    /\ donation[p].pc \in {"idle", "done"}
    /\ started < MaxRequests
    /\ started' = started + 1
    /\ donation' = [donation EXCEPT ![p] =
                       [IdleDonation EXCEPT !.pc = "article_query", !.donor = user,
                                            !.article_id = a, !.anonymous = anon]]
    /\ UNCHANGED <<payments, tasks>>
    /\ UNCHANGED <<now, articles, interactions, recCache, memo, redisClient, h, events>>
    /\ UNCHANGED likeVars
    /\ UNCHANGED keyVars
    /\ UNCHANGED utilVars

\* lines 54-71 and 191-196: SELECT id, author_id, title FROM articles WHERE
\* id = %s AND status = 'published', and what is raised after it
ArticleQuery(p) ==
    /\ donation[p].pc = "article_query"
    /\ LET r == donation[p]
           found == articles[r.article_id] = "published"
       IN  \E raised \in {"psycopg2.Error"}
                           \cup (IF found THEN {"KeyError"} ELSE {"HTTPException(404)"}) :
              /\ donation' = [donation EXCEPT ![p] =
                                 [r EXCEPT !.pc = "done", !.raised = raised,
                                           !.http = 500,
                                           !.detail = "Failed to process donation"]]
              /\ payments' = OnDonationError(payments, r)
    /\ UNCHANGED tasks
    /\ UNCHANGED resolverVars
    /\ UNCHANGED likeVars
    /\ UNCHANGED keyVars
    /\ UNCHANGED utilVars

InitDonations ==
    /\ likeRows = [u \in Users |-> 0]
    /\ likeCount = 0
    /\ liker = [p \in Procs |-> IdleLiker]
    /\ payments = {}
    /\ tasks = {}
    /\ donation = [p \in Procs |-> IdleDonation]
    /\ articles = [a \in ArticleIds |-> IF a = "a3" THEN "draft" ELSE "published"]
    /\ interactions = {<<"u1", "a1", "view">>, <<"u2", "a2", "share">>}
    /\ recCache = {}
    /\ memo = <<>>
    /\ redisClient = "none"
    /\ h = [p \in Procs |-> IdleHandler]
    /\ started = MaxRequests - 2
    /\ events = MaxEvents - 1
    /\ kwSeed = 0
    /\ kwArgs = <<>>
    /\ kwKey = cache_key_generator(<<>>, <<>>, 0)
    /\ fnIn = <<>>
    /\ fnOut = <<>>
    /\ now = 0

NextDonations ==
    \/ \E p \in Procs, user \in Users, a \in ArticleIds, anon \in BOOLEAN :
          DonationBegin(p, user, a, anon)
    \/ \E p \in Procs : ArticleQuery(p)
    \/ \E a \in ArticleIds, st \in {"published", "blocked"} : update_article(a, st)
    \/ \E a \in ArticleIds : delete_article(a)

SpecDonations == InitDonations /\ [][NextDonations]_vars

(***************************************************************************)
(* Pagination.  paginate_query_results cuts one page out of a result list  *)
(* that the caller has already fetched in full.                            *)
(***************************************************************************)
MaxItems == 5

MaxPage == 6

MaxPerPage == 3

PageItems == {"x", "y"}

\* a slice bound of a Python list of length n: a negative bound counts from
\* the end, and every bound is clamped into 0..n
SliceBound(i, n) == IF i < 0 THEN Max(i + n, 0) ELSE Min(i, n)

\* results[start:end]
Slice(results, start, end) ==
    LET lo == SliceBound(start, Len(results))
        hi == SliceBound(end, Len(results))
    IN  IF lo < hi THEN SubSeq(results, lo + 1, hi) ELSE <<>>

PageCount_Floor(total, per_page) == total \div per_page

\* (total + per_page - 1) // per_page
PageCount(total, per_page) == (total + per_page - 1) \div per_page

paginate_query_results(results, page, per_page) ==
    LET total == Len(results)
        pages == PageCount(total, per_page)
        start == (page - 1) * per_page
        end   == start + per_page
    IN  [data     |-> Slice(results, start, end),
         page     |-> page,
         per_page |-> per_page,
         total    |-> total,
         pages    |-> pages,
         has_next |-> page < pages,
         has_prev |-> page > 1]

PageOf(in) == paginate_query_results(in.results, in.page, in.per_page)

\* the query returns one more row
AddResult(item) ==
    /\ Len(fnIn.results) < MaxItems
    /\ fnIn' = [fnIn EXCEPT !.results = Append(@, item)]
    /\ fnOut' = PageOf(fnIn')
    /\ UNCHANGED resolverVars
    /\ UNCHANGED keyVars
    /\ UNCHANGED sideVars

\* the client asks for the following page
TurnPage ==
    /\ fnIn.page < MaxPage
    /\ fnIn' = [fnIn EXCEPT !.page = @ + 1]
    /\ fnOut' = PageOf(fnIn')
    /\ UNCHANGED resolverVars
    /\ UNCHANGED keyVars
    /\ UNCHANGED sideVars

\* the client asks for longer pages
WidenPage ==
    /\ fnIn.per_page < MaxPerPage
    /\ fnIn' = [fnIn EXCEPT !.per_page = @ + 1]
    /\ fnOut' = PageOf(fnIn')
    /\ UNCHANGED resolverVars
    /\ UNCHANGED keyVars
    /\ UNCHANGED sideVars

InitPages ==
    /\ InitRest
    /\ fnIn = [results |-> <<>>, page |-> 1, per_page |-> 1]
    /\ fnOut = PageOf(fnIn)

NextPages ==
    \/ \E item \in PageItems : AddResult(item)
    \/ TurnPage
    \/ WidenPage

SpecPages == InitPages /\ [][NextPages]_vars

(***************************************************************************)
(* Properties.                                                             *)
(***************************************************************************)
Done(p) == h[p].pc = "done"

Ok(p) == Done(p) /\ h[p].http = 200

IdsOf(resp) == [i \in 1..Len(resp.recommendations) |-> resp.recommendations[i].id]

\* what the data model calls a valid row: the user's own, active, unexpired
UsableRows(rows, user, t) ==
    {r \in rows : r.user_id = user /\ r.is_active /\ t < r.expiry_timestamp}

\* the first position of x in s
FirstPos(s, x) == CHOOSE i \in 1..Len(s) : s[i] = x /\ \A j \in 1..(i - 1) : s[j] # x

NoQueries(r) ==
    /\ r.n_cache_q = 0
    /\ r.n_article_q = 0
    /\ r.n_interaction_q = 0
    /\ r.setex_calls = <<>>
    /\ ~r.memo_written

\* C1: a request whose key holds an entry when the ephemeral store is read
\* returns that entry at once; it queries neither recommendation_cache nor
\* articles nor user_interactions and writes nothing to the memo.
C1_HitReturnsEntryWithoutQueries ==
    [][\A p \in Procs :
          ( /\ h[p].pc = "memo_get"
            /\ h'[p].pc # "memo_get"
            /\ MemoHas(h[p].cache_key)
            /\ ~h'[p].redis_failed )
          => ( /\ h'[p].pc = "done"
               /\ h'[p].http = 200
               /\ h'[p].returned = Deserialize(memo[h[p].cache_key].value)
               /\ NoQueries(h'[p])
               /\ memo' = memo )]_vars

C1_Witness ==
    \E p \in Procs :
        /\ Ok(p)
        /\ h[p].memo_seen = "hit"
        /\ h[p].returned.recommendations # <<>>
        /\ NoQueries(h[p])

\* C2 as claimed: every article of a response is published, in the articles
\* table, at the moment the response is returned.
C2_PublishedWhenReturned ==
    [][\A p \in Procs :
          (h[p].pc # "done" /\ h'[p].pc = "done" /\ h'[p].http = 200)
          => \A i \in 1..Len(h'[p].returned.recommendations) :
                articles'[h'[p].returned.recommendations[i].id] = "published"]_vars

\* C2 as amended: every article of a response was read as published: by this
\* request on the durable and trending paths, by the request that memoized
\* the response on a memo hit.
C2_PublishedWhenRead ==
    \A p \in Procs :
        Ok(p) =>
            \A i \in 1..Len(h[p].returned.recommendations) :
                LET art == h[p].returned.recommendations[i] IN
                /\ art.status = "published"
                /\ h[p].path # "memo" => h[p].seen_status[art.id] = "published"

C2_Witness ==
    \E p \in Procs :
        /\ Ok(p)
        /\ h[p].path = "memo"
        /\ \E i \in 1..Len(h[p].returned.recommendations) :
              articles[h[p].returned.recommendations[i].id] # "published"

\* C3: a response never holds more articles than the limit of its request,
\* whether it comes from the memo, the durable cache or the trending query.
C3_AtMostLimit ==
    \A p \in Procs :
        Ok(p) => Len(h[p].returned.recommendations) <= h[p].req.limit

C3_Witness ==
    \E p \in Procs :
        /\ Ok(p)
        /\ h[p].path = "memo"
        /\ h[p].req.limit = 1
        /\ Len(h[p].returned.recommendations) = 1
        /\ Cardinality({a \in ArticleIds : articles[a] = "published"}) > 1

\* C4 as claimed: a request made while its user has no valid row gets
\* model_used "trending_fallback" and published articles only.
C4_NoRowMeansFallback ==
    \A p \in Procs :
        (Ok(p) /\ UsableRows(h[p].seen_rows, h[p].user_id, h[p].seen_now) = {})
        => /\ h[p].returned.model_used = "trending_fallback"
           /\ \A i \in 1..Len(h[p].returned.recommendations) :
                 h[p].returned.recommendations[i].status = "published"

\* C4 as amended: a request that does not hit the memo, made while its user
\* has no valid row, gets model_used "trending_fallback" and only articles
\* read as published.
C4_NoRowMeansFallbackOffMemo ==
    \A p \in Procs :
        ( /\ Ok(p)
          /\ h[p].path # "memo"
          /\ UsableRows(h[p].seen_rows, h[p].user_id, h[p].seen_now) = {} )
        => /\ h[p].returned.model_used = "trending_fallback"
           /\ \A i \in 1..Len(h[p].returned.recommendations) :
                 LET art == h[p].returned.recommendations[i] IN
                 art.status = "published" /\ h[p].seen_status[art.id] = "published"

C4_Witness ==
    \E p \in Procs :
        /\ Ok(p)
        /\ h[p].path = "trending"
        /\ \E r \in h[p].seen_rows : r.is_active /\ r.expiry_timestamp <= h[p].seen_now
        /\ UsableRows(h[p].seen_rows, h[p].user_id, h[p].seen_now) = {}
        /\ h[p].returned.recommendations # <<>>

\* the request has built its response from the stores
Built(p) == h[p].pc \in {"memo_set", "return", "done"} /\ h[p].path \in {"durable", "trending"}

\* the published articles, as read, among the ids the request took from its row
PublishedAmongFirst(r) ==
    {a \in Range(Take(r.cached_rec.recommended_articles, r.req.limit)) \cap ArticleIds :
        r.seen_status[a] = "published"}

\* C5: off the memo, with a valid row whose first `limit` ids hold a published
\* article, the response lists exactly the published ones among those ids,
\* each once, in the order of the ranked list, and takes model_used,
\* generated_at and expires_at from the row.
C5_DurableHitFollowsRow ==
    \A p \in Procs :
        LET r == h[p]
            usable == UsableRows(r.seen_rows, r.user_id, r.seen_now)
            resp == IdsOf(r.response)
            ranked == r.cached_rec.recommended_articles
        IN  ( /\ Built(p)
              /\ usable # {} )
            => /\ r.cached_rec \in usable
               /\ PublishedAmongFirst(r) # {} =>
                    /\ r.path = "durable"
                    /\ Range(resp) = PublishedAmongFirst(r)
                    /\ \A i, j \in 1..Len(resp) :
                          i < j => FirstPos(ranked, resp[i]) < FirstPos(ranked, resp[j])
                    /\ r.response.model_used = r.cached_rec.model_ensemble
                    /\ r.response.generated_at = r.cached_rec.cache_timestamp
                    /\ r.response.expires_at = r.cached_rec.expiry_timestamp
                    /\ Ok(p) => r.returned = r.response

C5_Witness ==
    \E p \in Procs :
        /\ Ok(p)
        /\ h[p].path = "durable"
        /\ IdsOf(h[p].returned) = <<"a3", "a1">>

\* C6: a failure of the ephemeral store, at get_redis, get or setex, does not
\* fail the request: a failed lookup goes on to the durable lookup, and with
\* no database error the computed response is returned with status 200.
C6_RedisFailureIsNotFatal ==
    \A p \in Procs :
        LET r == h[p] IN
        /\ (r.memo_seen = "error" /\ r.pc # "db_cache")
              => (r.n_cache_q = 1 \/ r.db_error \in {"connect", "cache_query"})
        /\ (Done(p) /\ r.redis_failed /\ r.db_error = "none")
              => /\ r.http = 200
                 /\ r.path \in {"durable", "trending"}
                 /\ r.returned = r.response

C6_Witness ==
    \E p \in Procs :
        /\ Ok(p)
        /\ h[p].memo_seen = "error"
        /\ ~h[p].memo_written
        /\ h[p].returned.recommendations # <<>>

C8_DatabaseFailureIsGeneric ==
    \A p \in Procs :
        LET r == h[p] IN
        r.db_error \in {"connect", "cache_query", "article_fetch", "trending_query"}
        => /\ Done(p)
           /\ r.http = 500
           /\ r.detail = "Failed to get recommendations"
           /\ r.returned = NoResponse
           /\ r.setex_calls = <<>>
           /\ ~r.memo_written

C8_Witness ==
    \E p \in Procs :
        /\ Done(p)
        /\ h[p].db_error = "article_fetch"
        /\ h[p].http = 500
        /\ PublishedIn(h[p].article_ids) # {}

\* the published articles, as read, that match the request of r
Matching(r) ==
    {a \in ArticleIds :
        /\ r.seen_status[a] = "published"
        /\ (r.req.categories.t = "list" /\ r.req.categories.v # <<>>)
              => Category[a] \in Range(r.req.categories.v)
        /\ r.req.exclude_read => a \notin r.seen_read}

\* C9: on a memo miss with no valid row and no published article matching the
\* request, the request succeeds with an empty list and model_used
\* "trending_fallback", and memoizes that response.
C9_EmptyFallback ==
    \A p \in Procs :
        LET r == h[p] IN
        ( /\ r.memo_seen = "miss"
          /\ r.n_article_q = 1
          /\ r.db_error = "none"
          /\ UsableRows(r.seen_rows, r.user_id, r.seen_now) = {}
          /\ Matching(r) = {} )
        => /\ r.response.recommendations = <<>>
           /\ r.response.model_used = "trending_fallback"
           /\ r.pc = "done" => (r.http = 200 /\ r.returned = r.response)
           /\ r.pc \in {"return", "done"} =>
                 (Len(r.setex_calls) = 1 /\ r.setex_calls[1].value = Serialize(r.response))
           /\ (r.pc = "return" /\ r.memo_written /\ r.cache_key \in DOMAIN memo)
                 => memo[r.cache_key].value = Serialize(r.response)

C9_Witness ==
    \E p \in Procs :
        /\ Ok(p)
        /\ h[p].memo_seen = "miss"
        /\ h[p].path = "trending"
        /\ h[p].returned.recommendations = <<>>
        /\ h[p].memo_written
        /\ \E a \in ArticleIds : articles[a] = "published"

\* the orders in which a caller can pass the keyword arguments kw
Orders(kw) == {q \in [1..Len(kw) -> Range(kw)] : Range(q) = Range(kw)}

C11_ReadingTime ==
    LET n == WordCount(fnIn.content)
        r == fnOut
    IN  /\ r >= 1
        /\ n < 300 <=> r = 1
        /\ n >= 300 => (200 * r - n <= 100 /\ n - 200 * r <= 100)
        /\ (n >= 300 /\ n % 200 = 100) => r % 2 = 0

C11_Witness ==
    /\ WordCount(fnIn.content) = 500
    /\ fnOut = 2

\* the factor of the age bucket, in tenths, as the claim lists the buckets
BucketFactor(age) ==
    CASE age <= 3600 -> 10
      [] age > 3600 /\ age <= 24 * 3600 -> 8
      [] age > 24 * 3600 /\ age <= 72 * 3600 -> 6
      [] age > 72 * 3600 /\ age <= 168 * 3600 -> 4
      [] age > 168 * 3600 -> 1

\* C12: the trending score is views*0.1 + likes*2 + shares*3 + comments*2.5
\* times the factor of the age bucket, the bucket bounds inclusive; 100
\* views, 10 likes, 5 shares and 2 comments at 30 minutes score 50.0.
C12_TrendingScore ==
    /\ 100 * fnOut =
          (100 * fnIn.views + 2000 * fnIn.likes + 3000 * fnIn.shares
              + 2500 * fnIn.comments) * BucketFactor(fnIn.age)
    /\ ( /\ fnIn.views = 100 /\ fnIn.likes = 10 /\ fnIn.shares = 5
         /\ fnIn.comments = 2 /\ fnIn.age = 1800 ) => fnOut = 5000

C12_Witness ==
    /\ fnIn.views = 100 /\ fnIn.likes = 10 /\ fnIn.shares = 5
    /\ fnIn.comments = 2
    /\ fnIn.age = 24 * 3600
    /\ fnOut = 4000

\* C13: the quality score lies in [0, 100] and is the sum, clamped to 100,
\* of a length score of 0, 10, 20 or 30, a title score of 5, 15 or 20, a
\* summary score of 0, 10 or 15, a readability score of 10, 15 or 20 and a
\* structure score of 5, 10 or 15.
C13_QualityIsSumOfParts ==
    /\ fnOut.length \in {0, 10, 20, 30}
    /\ fnOut.title \in {5, 15, 20}
    /\ fnOut.summary \in {0, 10, 15}
    /\ fnOut.readability \in {10, 15, 20}
    /\ fnOut.structure \in {5, 10, 15}
    /\ fnOut.score >= 0
    /\ fnOut.score <= 100 * 100
    /\ fnOut.score =
          100 * Min(100, fnOut.length + fnOut.title + fnOut.summary
                            + fnOut.readability + fnOut.structure)

C13_Witness ==
    /\ fnOut.score = 100 * 100
    /\ fnOut.length = 30
    /\ fnOut.readability = 20
    /\ fnOut.structure = 15

\* C14: the length score follows the number of white-space-delimited words
\* of the content alone: 0 below 150 words, 10 from 150 to 299, 20 from 300
\* to 499, 30 from 500 on.
C14_LengthScoreByWords ==
    LET n == WordCount(ContentOf(fnIn)) IN
    /\ n < 150 => fnOut.length = 0
    /\ (150 <= n /\ n <= 299) => fnOut.length = 10
    /\ (300 <= n /\ n <= 499) => fnOut.length = 20
    /\ n >= 500 => fnOut.length = 30

C14_Witness ==
    /\ WordCount(ContentOf(fnIn)) = 150
    /\ Len(ContentOf(fnIn)) >= 300
    /\ fnOut.length = 10

\* the lowercased runs of three or more letters of the content that stand
\* between characters that are not word characters, in order, without the
\* stop words
KeywordTokens ==
    LET s == Flatten(fnIn.pieces)
        starts == {i \in 1..Len(s) :
                      /\ IsLetter(s[i])
                      /\ i = 1 \/ ~IsWordChar(s[i - 1])
                      /\ RunEnd(s, i) >= i + 2
                      /\ RunEnd(s, i) = Len(s) \/ ~IsWordChar(s[RunEnd(s, i) + 1])}
        nth(k) == CHOOSE i \in starts : Cardinality({j \in starts : j < i}) = k - 1
        all == [k \in 1..Cardinality(starts) |->
                   JoinWith("", LowerStr(SubSeq(s, nth(k), RunEnd(s, nth(k)))))]
    IN  SelectSeq(all, LAMBDA w : w \notin stop_words)

Occurrences(toks, w) == Cardinality({i \in 1..Len(toks) : toks[i] = w})

\* C15: the keywords hold no stop word and no word twice, only lowercased
\* runs of three or more letters of the content, at most min(max_keywords,
\* distinct tokens) of them, the more frequent first and of equally frequent
\* ones the one met first in the content first.
C15_Keywords ==
    LET toks == KeywordTokens
        out == fnOut
        rank(w) == <<Occurrences(toks, w), FirstPos(toks, w)>>
        outranks(v, w) ==
            \/ rank(v)[1] > rank(w)[1]
            \/ rank(v)[1] = rank(w)[1] /\ rank(v)[2] < rank(w)[2]
    IN  /\ \A i \in 1..Len(out) : out[i] \notin stop_words
        /\ \A i, j \in 1..Len(out) : i # j => out[i] # out[j]
        /\ Range(out) \subseteq Range(toks)
        /\ Len(out) <= Min(fnIn.max_keywords, Cardinality(Range(toks)))
        /\ \A i, j \in 1..Len(out) : i < j => outranks(out[i], out[j])
        /\ \A w \in Range(toks) \ Range(out) :
              \A i \in 1..Len(out) : outranks(out[i], w)

C15_Witness ==
    /\ fnOut = <<"dog", "cat">>
    /\ Flatten(fnIn.pieces) =
          <<"t", "h", "e", " ", "d", "o", "g", " ", "C", "a", "t", "-">>

\* the engagement formula of the claim, as a quotient, for views > 0 and
\* reading_time > 0
ClaimedEngagement ==
    LET v == fnIn.views
        full == 60 * fnIn.reading_time
        spent == Min(fnIn.time_spent_avg, full)
    IN  << (30 * fnIn.likes + 30 * fnIn.shares + 20 * fnIn.comments) * full
              + 20 * spent * v,
           v * full >>

\* C16 as claimed: the engagement score is 0 without views and otherwise is
\* the weighted sum of the rates times 100.
C16_EngagementIsWeightedSum ==
    /\ fnIn.views = 0 => fnOut = 0
    /\ (fnIn.views > 0 /\ fnIn.reading_time > 0) =>
          fnOut * ClaimedEngagement[2] = 100 * ClaimedEngagement[1]

\* C16 as amended: the engagement score is 0 without views and otherwise is
\* the weighted sum of the rates times 100 rounded to two decimals, the
\* completion rate capped at 1 and taken as 0 when reading_time is 0; the
\* completion term adds at most 20 points.
C16_EngagementIsRoundedSum ==
    /\ fnIn.views = 0 => fnOut = 0
    /\ (fnIn.views > 0 /\ fnIn.reading_time > 0) =>
          /\ 2 * (fnOut * ClaimedEngagement[2] - 100 * ClaimedEngagement[1])
                <= ClaimedEngagement[2]
          /\ 2 * (100 * ClaimedEngagement[1] - fnOut * ClaimedEngagement[2])
                <= ClaimedEngagement[2]
    /\ fnIn.views > 0 =>
          /\ 2 * (fnOut * fnIn.views
                    - 100 * (30 * fnIn.likes + 30 * fnIn.shares + 20 * fnIn.comments))
                <= (2 * 2000 + 1) * fnIn.views
          /\ fnIn.reading_time = 0 =>
                2 * (100 * (30 * fnIn.likes + 30 * fnIn.shares + 20 * fnIn.comments)
                        - fnOut * fnIn.views) \in (-fnIn.views)..fnIn.views

C16_Witness ==
    /\ fnIn.views = 7
    /\ fnIn.likes = 1
    /\ fnIn.shares = 0
    /\ fnIn.comments = 0
    /\ fnIn.reading_time = 1
    /\ fnIn.time_spent_avg = 200
    /\ fnOut = 2429

\* C17: a request that misses the memo and finds a valid row of which none
\* of the first `limit` ids is a published article is answered by the
\* trending fallback, with model_used "trending_fallback".
C17_NothingResolvedFallsThrough ==
    \A p \in Procs :
        LET r == h[p] IN
        ( /\ Ok(p)
          /\ r.memo_seen = "miss"
          /\ r.cached_rec \in UsableRows(r.seen_rows, r.user_id, r.seen_now)
          /\ PublishedAmongFirst(r) = {} )
        => r.returned.model_used = "trending_fallback"

\* C18: the row a request builds on is a row of its user that is active and
\* unexpired when looked up, and no other such row of the user was written
\* later; the response of the durable path carries the fields of that row.
C18_RowIsLatestValid ==
    \A p \in Procs :
        LET r == h[p]
            usable == UsableRows(r.seen_rows, r.user_id, r.seen_now)
        IN  /\ r.cached_rec # NoRow =>
                /\ r.cached_rec \in r.seen_rows
                /\ r.cached_rec.user_id = r.user_id
                /\ r.cached_rec.is_active
                /\ r.cached_rec.expiry_timestamp > r.seen_now
                /\ \A q \in usable : q.cache_timestamp <= r.cached_rec.cache_timestamp
            /\ r.path = "durable" =>
                /\ r.cached_rec # NoRow
                /\ Range(IdsOf(r.response)) \subseteq Range(r.cached_rec.recommended_articles)
                /\ r.response.model_used = r.cached_rec.model_ensemble
            /\ (r.path = "trending" /\ r.cached_rec = NoRow) => usable = {}

C18_Witness ==
    \E p \in Procs :
        /\ Ok(p)
        /\ h[p].path = "durable"
        /\ Cardinality(UsableRows(h[p].seen_rows, h[p].user_id, h[p].seen_now)) > 1
        /\ IdsOf(h[p].returned) = <<"a2">>

\* a outranks b in the fallback: higher trending_score, then higher
\* engagement_score
Outranks(a, b) ==
    \/ TrendingScore[a] > TrendingScore[b]
    \/ (TrendingScore[a] = TrendingScore[b] /\ EngagementScore[a] > EngagementScore[b])

\* C19: the list built by the trending fallback is the first `limit` articles,
\* by trending_score then engagement_score, both descending, among the
\* published articles that are in one of the requested categories when the
\* list of categories is non-empty and that the user has not viewed, liked or
\* saved when exclude_read is set; with no categories, or an empty list, no
\* category is filtered, and without exclude_read nothing read is excluded.
C19_FallbackList ==
    \A p \in Procs :
        LET r == h[p]
            out == IdsOf(r.response)
            among == Matching(r)
        IN  (Built(p) /\ r.path = "trending")
            => /\ Range(out) \subseteq among
               /\ Len(out) = Min(r.req.limit, Cardinality(among))
               /\ \A i, j \in 1..Len(out) : i < j => Outranks(out[i], out[j])
               /\ \A a \in among \ Range(out) : \A i \in 1..Len(out) : Outranks(out[i], a)
               /\ Ok(p) => IdsOf(r.returned) = out

C19_Witness ==
    \E p \in Procs :
        /\ Ok(p)
        /\ h[p].path = "trending"
        /\ h[p].req.categories = PyList(<<>>)
        /\ h[p].req.exclude_read
        /\ h[p].req.limit = 3
        /\ h[p].seen_status["a1"] = "published"
        /\ "a1" \in h[p].seen_read
        /\ IdsOf(h[p].returned) = <<"a2", "a3">>

\* p and q handle requests with the same key, and both missed the memo
Racers(p, q) ==
    /\ p # q
    /\ h[p].memo_seen = "miss"
    /\ h[q].memo_seen = "miss"
    /\ h[p].cache_key = h[q].cache_key

\* what p and q read of the articles, of the rows and, where both queried
\* them, of the interactions, is the same
SameReads(p, q) ==
    /\ h[p].seen_status = h[q].seen_status
    /\ h[p].seen_rows = h[q].seen_rows
    /\ (h[p].n_interaction_q > 0 /\ h[q].n_interaction_q > 0)
          => h[p].seen_read = h[q].seen_read

\* the rows of the user that were valid when p read, and when q read
SameValidRows(p, q) ==
    UsableRows(h[p].seen_rows, h[p].user_id, h[p].seen_now)
        = UsableRows(h[q].seen_rows, h[q].user_id, h[q].seen_now)

\* the list and the model of a response
ListAndModel(resp) == <<IdsOf(resp), resp.model_used>>

\* both succeed unless the database fails
RacersSucceed(p, q) ==
    (Done(p) /\ Done(q) /\ h[p].db_error = "none" /\ h[q].db_error = "none")
    => (h[p].http = 200 /\ h[q].http = 200)

\* both built, and hence write, the same list and model
RacersAgree(p, q) ==
    /\ ListAndModel(h[p].response) = ListAndModel(h[q].response)
    /\ \A i \in 1..Len(h[p].setex_calls), j \in 1..Len(h[q].setex_calls) :
          ListAndModel(Deserialize(h[p].setex_calls[i].value))
              = ListAndModel(Deserialize(h[q].setex_calls[j].value))

\* a step changes the entry under a key only by a handler's write, which
\* leaves its own value there, or by dropping the entry
LastWriteWins ==
    /\ \A p \in Procs :
          (h[p].pc = "memo_set" /\ h'[p].memo_written)
          => /\ h[p].cache_key \in DOMAIN memo'
             /\ memo'[h[p].cache_key].value = Serialize(h[p].response)
    /\ \A k \in DOMAIN memo' :
          (k \notin DOMAIN memo \/ memo'[k] # memo[k])
          => \E p \in Procs :
                /\ h[p].pc = "memo_set"
                /\ h'[p].memo_written
                /\ h[p].cache_key = k

Stepping(p) == h'[p] # h[p]

\* C21: a step of a request leaves recommendation_cache, the articles and the
\* user_interactions as they are, on every path, and changes no memo entry
\* but the one under the request's own key.
C21_RequestsOnlyWriteTheirMemoEntry ==
    [][(\E p \in Procs : Stepping(p))
       => /\ recCache' = recCache
          /\ articles' = articles
          /\ interactions' = interactions
          /\ DOMAIN memo \subseteq DOMAIN memo'
          /\ \A k \in DOMAIN memo' :
                (k \notin DOMAIN memo \/ memo'[k] # memo[k])
                => \E p \in Procs : Stepping(p) /\ h'[p].cache_key = k /\ k # ""]_vars

C21_Witness ==
    \E p \in Procs :
        /\ Done(p)
        /\ h[p].http = 500
        /\ h[p].memo_written
        /\ DOMAIN memo = {h[p].cache_key}
        /\ recCache # {}

\* the rows of recommendation_cache, retired or not, that a response of the
\* user carries the model and the timestamps of
StemRows(rows, user, resp) ==
    {r \in rows :
        /\ r.user_id = user
        /\ r.model_ensemble = resp.model_used
        /\ r.cache_timestamp = resp.generated_at
        /\ r.expiry_timestamp = resp.expires_at}

\* p returns, with this step, a response built from a row
ReturnsFromRow(p) ==
    /\ h[p].pc # "done"
    /\ h'[p].pc = "done"
    /\ h'[p].http = 200
    /\ h'[p].returned.model_used # "trending_fallback"

\* C22 as claimed: a response built from a row is returned, from the durable
\* path or from the memo, only while that row is active and unexpired.
C22_ReturnedWhileRowValid ==
    [][\A p \in Procs :
          ReturnsFromRow(p)
          => /\ now' < h'[p].returned.expires_at
             /\ \E r \in StemRows(recCache', h'[p].user_id, h'[p].returned) : r.is_active]_vars

\* C22 as amended: a response built from a row is built from a row that was
\* active and unexpired when the request queried recommendation_cache; a memo
\* hit returns such a response while its memo entry has not run out, whatever
\* has become of the row.
C22_BuiltWhileRowValid ==
    [][\A p \in Procs :
          ReturnsFromRow(p)
          => /\ h'[p].path = "durable" =>
                  LET row == h'[p].cached_rec IN
                  /\ row \in h'[p].seen_rows
                  /\ row.is_active
                  /\ h'[p].seen_now < row.expiry_timestamp
                  /\ h'[p].returned.expires_at = row.expiry_timestamp
                  /\ h'[p].returned.generated_at = row.cache_timestamp
             /\ h'[p].path = "memo" =>
                  /\ h[p].cache_key \in DOMAIN memo
                  /\ now < memo[h[p].cache_key].expires_at
                  /\ h'[p].returned = Deserialize(memo[h[p].cache_key].value)
                  /\ StemRows(recCache', h'[p].user_id, h'[p].returned) # {}
                  /\ h'[p].returned.generated_at < h'[p].returned.expires_at]_vars

C22_Witness ==
    \E p \in Procs :
        /\ Ok(p)
        /\ h[p].path = "memo"
        /\ h[p].returned.model_used # "trending_fallback"
        /\ h[p].returned.recommendations # <<>>
        /\ h[p].returned.expires_at <= h[p].seen_now
        /\ StemRows(recCache, h[p].user_id, h[p].returned) # {}

\* C23: two requests of a user whose bodies validate to the same
\* RecommendationRequest, as a body without a limit and one with limit 20,
\* or one with an undeclared member, get the same memo key, in the FastAPI
\* backend and in the Flask backend.
C23_SameRequestSameKey ==
    Validate(fnIn.first) = Validate(fnIn.second)
    => /\ fnOut.fastapi[1] = fnOut.fastapi[2]
       /\ fnOut.flask[1] = fnOut.flask[2]

\* the FastAPI half of C23 alone
FastapiKeysAgree ==
    Validate(fnIn.first) = Validate(fnIn.second) => fnOut.fastapi[1] = fnOut.fastapi[2]

\* q hit the entry that p memoized: the same key, and p the request that
\* wrote it
HitEntryOf(q, p) ==
    /\ p # q
    /\ Ok(q)
    /\ h[q].path = "memo"
    /\ h[p].memo_written
    /\ h[p].cache_key = h[q].cache_key

C25_RequestsComplete ==
    \A p \in Procs : (h[p].pc = "memo_get") ~> (h[p].pc = "done")

\* the key k starts with "recommendations:{user}:"
KeyOf(user, k) ==
    LET prefix == "recommendations:" \o user \o ":" IN
    Len(k) > Len(prefix) /\ SubSeq(k, 1, Len(prefix)) = prefix

\* C26: the key of every request starts with "recommendations:" and the id
\* of its user; a request that hits the memo gets an entry that a request of
\* the same user memoized, and a request writes no entry of another user.
C26_MemoIsPerUser ==
    /\ \A p \in Procs :
          h[p].pc # "idle" =>
             /\ KeyOf(h[p].user_id, h[p].cache_key)
             /\ \A u \in Users \ {h[p].user_id} : ~KeyOf(u, h[p].cache_key)
    /\ \A q \in Procs :
          (Ok(q) /\ h[q].path = "memo")
          => \E p \in Procs \ {q} :
                /\ h[p].user_id = h[q].user_id
                /\ h[p].cache_key = h[q].cache_key
                /\ Len(h[p].setex_calls) = 1
                /\ h[q].returned = Deserialize(h[p].setex_calls[1].value)
    /\ \A p, q \in Procs :
          (h[p].memo_written /\ h[q].memo_written /\ h[p].user_id # h[q].user_id
              /\ now < MemoTTL)
          => /\ h[p].cache_key # h[q].cache_key
             /\ memo[h[p].cache_key].value = h[p].setex_calls[1].value
             /\ memo[h[q].cache_key].value = h[q].setex_calls[1].value

C26_Witness ==
    \E p, q \in Procs :
        /\ p # q
        /\ h[p].user_id = "u1" /\ h[q].user_id = "u2"
        /\ Ok(p) /\ Ok(q)
        /\ h[p].memo_seen = "miss" /\ h[q].memo_seen = "miss"
        /\ h[p].memo_written /\ h[q].memo_written
        /\ MemoHas(h[p].cache_key) /\ MemoHas(h[q].cache_key)
        /\ h[p].req = h[q].req
        /\ h[p].returned.recommendations # h[q].returned.recommendations

RECURSIVE FirstPublished(_, _, _)
\* the ids of s read as published, each once, in the order of s
FirstPublished(s, status, seen) ==
    IF s = <<>> THEN <<>>
    ELSE LET a == Head(s) IN
         IF a \in ArticleIds /\ a \notin seen /\ status[a] = "published"
         THEN <<a>> \o FirstPublished(Tail(s), status, seen \cup {a})
         ELSE FirstPublished(Tail(s), status, seen)

\* C27: on the durable path the list is determined by the ranked ids of the
\* row, the limit and the statuses of the articles alone; the categories and
\* exclude_read of the request play no part, so an article of another
\* category, or one the user has viewed, liked or saved, is returned all the
\* same.
C27_DurableListIgnoresFilters ==
    \A p \in Procs :
        LET r == h[p] IN
        (Built(p) /\ r.path = "durable")
        => /\ IdsOf(r.response)
                = FirstPublished(Take(r.cached_rec.recommended_articles, r.req.limit),
                                 r.seen_status, {})
           /\ Ok(p) => IdsOf(r.returned) = IdsOf(r.response)

C27_Witness ==
    \E p \in Procs :
        /\ Ok(p)
        /\ h[p].path = "durable"
        /\ h[p].req.exclude_read
        /\ h[p].req.categories = PyList(<<"sports">>)
        /\ <<h[p].user_id, "a1", "view">> \in interactions
        /\ Category["a1"] # "sports"
        /\ \E i \in 1..Len(h[p].returned.recommendations) :
              h[p].returned.recommendations[i].id = "a1"

\* C28: from a state where like_count is the number of 'like' rows, whatever
\* the interleaving of like_article calls, like_count is never negative, is
\* still the number of 'like' rows, and no user has two 'like' rows on the
\* article.
C28_LikeCountMatchesRows ==
    /\ likeCount >= 0
    /\ likeCount = LikeRowCount(likeRows)
    /\ \A u \in Users : likeRows[u] <= 1

\* what of C28 survives the races: like_count is never negative
LikeCountNotNegative == likeCount >= 0

\* the concurrent unlike: one user's two calls take two off the count for the
\* one row they delete
UnlikedTwice ==
    /\ \A p \in Procs :
          liker[p].pc = "done" /\ liker[p].user_id = "u1" /\ liker[p].existing_like
             /\ liker[p].http = 200
    /\ likeRows = [u \in Users |-> IF u = "u2" THEN 1 ELSE 0]
    /\ likeCount = 0

\* the donation of r is one create_donation has to turn down: the article is
\* not published, the donor is its author, or the author has no wallet
TurnedDown(r) ==
    \/ articles[r.article_id] # "published"
    \/ r.donor = Author[r.article_id]
    \/ DidAddress[Author[r.article_id]] = ""

NoDonationIsRecorded == payments = {} /\ tasks = {}

(***************************************************************************)
(* C30.  For every result list, per_page >= 1 and page >= 1, the page has  *)
(* at most per_page items, pages is the ceiling of total / per_page,       *)
(* has_next holds exactly when page < pages and has_prev exactly when      *)
(* page > 1, the data of pages 1..pages put end to end is the input list,  *)
(* each item once and in order, and every page beyond pages is empty.      *)
(***************************************************************************)
\* the least number of pages of per_page items that hold total items
Ceiling(total, per_page) ==
    CHOOSE k \in 0..total :
        /\ k * per_page >= total
        /\ \A j \in 0..total : j * per_page >= total => k <= j

RECURSIVE PagesThrough(_, _, _)
PagesThrough(results, per_page, k) ==
    IF k = 0 THEN <<>>
    ELSE PagesThrough(results, per_page, k - 1)
             \o paginate_query_results(results, k, per_page).data

C30_PagesPartitionTheList ==
    (fnIn.page >= 1 /\ fnIn.per_page >= 1) =>
        /\ Len(fnOut.data) <= fnIn.per_page
        /\ fnOut.pages = Ceiling(Len(fnIn.results), fnIn.per_page)
        /\ fnOut.has_next <=> (fnIn.page < fnOut.pages)
        /\ fnOut.has_prev <=> (fnIn.page > 1)
        /\ PagesThrough(fnIn.results, fnIn.per_page, fnOut.pages) = fnIn.results
        /\ fnIn.page > fnOut.pages => fnOut.data = <<>>

\* the last page of several, and not a full one
C30_Witness ==
    /\ fnOut.pages > 1
    /\ fnIn.page = fnOut.pages
    /\ Len(fnOut.data) > 0
    /\ Len(fnOut.data) < fnIn.per_page
    /\ fnOut.has_prev
    /\ ~ fnOut.has_next

=============================================================================
